---- MODULE Spec2Model ----
(***************************************************************************)
(* A model of MultiRegionFailoverManager (src/multi_region_failover.py):   *)
(* the region-health check, the failover-target selection, the four-step   *)
(* failover orchestration with its rollback, the monitor loop that drives  *)
(* them, and the status query get_status.                                  *)
(*                                                                         *)
(* Health scores are percentages (services_healthy * 100 / services_total) *)
(* so that the float comparisons of the source become integer comparisons; *)
(* with four subsystem probes every score is one of 0, 25, 50, 75, 100.    *)
(* Response times are whole seconds.                                       *)
(***************************************************************************)
EXTENDS Integers, Sequences, FiniteSets, TLC

VARIABLES
    secondary_regions,        \* constructor argument: the ordered standby list
    region_health,            \* region -> RegionHealth
    current_active_region,
    failover_events,          \* the list perform_failover appends to
    failover_in_progress,
    is_monitoring,
    consecutive_failures,     \* local of monitor_loop: region -> counter
    pc,                       \* thread -> position in the code
    loop,                     \* locals of monitor_loop
    frame,                    \* thread -> locals of its perform_failover call
    obs                       \* observations of the run (history), and the
                              \* dict a running get_status is building

vars == << secondary_regions, region_health, current_active_region,
           failover_events, failover_in_progress, is_monitoring,
           consecutive_failures, pc, loop, frame, obs >>

----------------------------------------------------------------------------
(* Configuration: the defaults of __init__.                                *)

primary_region == "us-east-1"

default_secondary_regions == << "us-west-2", "eu-west-1" >>

Regions == { primary_region } \cup
           { default_secondary_regions[i] : i \in 1..Len(default_secondary_regions) }

all_regions == << primary_region >> \o secondary_regions

health_threshold == 70

response_time_threshold == 5

consecutive_failures_threshold == 3

ACTIVE == "active"
STANDBY == "standby"
FAILING_OVER == "failing_over"
FAILED == "failed"

FailoverStatus == { ACTIVE, STANDBY, FAILING_OVER, FAILED }

None == "None"

Threads == { "monitor", "manual", "operator" }

----------------------------------------------------------------------------
(* Bounds of the model.                                                    *)

\* the monitor's counters are capped: an unhealthy check is not drawn for a
\* region whose counter has reached MaxFailures
MaxFailures == 3

\* no orchestration starts once failover_events holds MaxEvents entries
MaxEvents == 2

\* number of polls _verify_target_region makes before its wait is over
\* (max_wait_time / the 30 s sleep, scaled down)
MaxPolls == 2

\* the repeated caller starts no orchestration once failover_events holds
\* MaxLogged entries
MaxLogged == 11

\* number of direct calls of check_region_health in the runs that examine one
MaxChecks == 2

\* largest number of failed checks handed to _assess_cascade_risk
MaxFailedChecks == 4

\* statements that raise an exception in one run
MaxRaised == 3

----------------------------------------------------------------------------
(* Inputs: what the probes and the collaborators can answer.               *)

\* one answer of the four subsystem probes of a region
\* (_check_elb_health, _check_ec2_health, _check_rds_health, _check_ecs_health)
ProbeResults == [ elb : BOOLEAN, ec2 : BOOLEAN, rds : BOOLEAN, ecs : BOOLEAN ]

\* elapsed seconds of one check: below, at and above response_time_threshold
Latencies == { 1, 5, 6 }

\* the answers the long runs draw from: all four subsystems healthy (score 100)
\* or two of them failing (score 50), answered fast or too slowly
ProbeSample == { [ elb |-> TRUE,  ec2 |-> TRUE, rds |-> TRUE,  ecs |-> TRUE ],
                 [ elb |-> FALSE, ec2 |-> TRUE, rds |-> FALSE, ecs |-> TRUE ] }

LatencySample == { 1, 6 }

\* the answers the selection runs draw from: scores 100, 75 and 50
ProbeScores == { [ elb |-> TRUE,  ec2 |-> TRUE, rds |-> TRUE,  ecs |-> TRUE ],
                 [ elb |-> TRUE,  ec2 |-> TRUE, rds |-> FALSE, ecs |-> TRUE ],
                 [ elb |-> FALSE, ec2 |-> TRUE, rds |-> FALSE, ecs |-> TRUE ] }

----------------------------------------------------------------------------
(* RegionHealth and check_region_health.                                   *)

RegionHealth(st, score, healthy, total, rt) ==
    [ status |-> st, health_score |-> score, services_healthy |-> healthy,
      services_total |-> total, response_time |-> rt ]

\* services_healthy and services_total as the four "+= 1" blocks count them
CountHealthy(p) ==
    (IF p.elb THEN 1 ELSE 0) + (IF p.ec2 THEN 1 ELSE 0) +
    (IF p.rds THEN 1 ELSE 0) + (IF p.ecs THEN 1 ELSE 0)

CountTotal(p) == 4

\* health_score = services_healthy / services_total if services_total > 0 else 0.0
HealthScore(healthy, total) ==
    IF total > 0 THEN (healthy * 100) \div total ELSE 0

\* a check that promotes the configured primary instead of the active region
NewStatusPrimary(region, current_status, health_score, response_time, active) ==
    IF health_score < health_threshold \/ response_time > response_time_threshold
    THEN IF current_status = ACTIVE THEN FAILING_OVER ELSE FAILED
    ELSE IF region = primary_region THEN ACTIVE ELSE STANDBY

\* a check that keeps an unhealthy region FAILING_OVER
NewStatusKeepsFailingOver(region, current_status, health_score, response_time, active) ==
    IF health_score < health_threshold \/ response_time > response_time_threshold
    THEN IF current_status \in { ACTIVE, FAILING_OVER } THEN FAILING_OVER ELSE FAILED
    ELSE IF region = active THEN ACTIVE ELSE STANDBY

\* a check that leaves a FAILED region FAILED when it finds it healthy
NewStatusSticky(region, current_status, health_score, response_time, active) ==
    IF health_score < health_threshold \/ response_time > response_time_threshold
    THEN IF current_status = ACTIVE THEN FAILING_OVER ELSE FAILED
    ELSE IF current_status = FAILED THEN FAILED
         ELSE IF region = active THEN ACTIVE ELSE STANDBY

\* "Determine status": lines 142-149
NewStatus(region, current_status, health_score, response_time, active) ==
    IF health_score < health_threshold \/ response_time > response_time_threshold
    THEN IF current_status = ACTIVE THEN FAILING_OVER ELSE FAILED
    ELSE IF region = active THEN ACTIVE ELSE STANDBY

\* the RegionHealth check_region_health stores and returns for probe answers p
\* taking rt seconds
check_region_health(region, p, rt) ==
    LET healthy == CountHealthy(p)
        total   == CountTotal(p)
        score   == HealthScore(healthy, total)
    IN  RegionHealth(
            NewStatus(region, region_health[region].status, score, rt,
                      current_active_region),
            score, healthy, total, rt)

\* float('inf'), the response time of the record of line 181: a number above
\* every latency and every threshold
float_inf == 1000

\* the RegionHealth the except branch of check_region_health (lines 170-185)
\* stores and returns when a statement of its try block has raised
failed_health == RegionHealth(FAILED, 0, 0, 0, float_inf)

----------------------------------------------------------------------------
(* select_best_failover_region.                                            *)

\* a filter that lets every secondary region through
EligibleUnfiltered(region) == region_health[region].status \in FailoverStatus

\* the filter of the list comprehension
Eligible(region) ==
    /\ region_health[region].status \in { STANDBY, ACTIVE }
    /\ region_health[region].health_score >= health_threshold

\* a candidate list drawn from the whole fleet
available_regions_of_fleet == SelectSeq(all_regions, Eligible)

available_regions == SelectSeq(secondary_regions, Eligible)

\* a sort key without the response time
KeyLessByScore(a, b) ==
    -region_health[a].health_score < -region_health[b].health_score

\* the sort key (-health_score, response_time), compared as Python compares tuples
KeyLess(a, b) ==
    \/ -region_health[a].health_score < -region_health[b].health_score
    \/ /\ region_health[a].health_score = region_health[b].health_score
       /\ region_health[a].response_time < region_health[b].response_time

\* list.sort is stable: x goes after every element whose key is not greater
RECURSIVE Insert(_, _)
Insert(x, sorted) ==
    IF sorted = << >> THEN << x >>
    ELSE IF KeyLess(x, Head(sorted)) THEN << x >> \o sorted
    ELSE << Head(sorted) >> \o Insert(x, Tail(sorted))

RECURSIVE SortByKey(_)
SortByKey(s) ==
    IF s = << >> THEN << >>
    ELSE Insert(s[Len(s)], SortByKey(SubSeq(s, 1, Len(s) - 1)))

\* a selection that falls back to the first standby when none is healthy
select_first_when_none ==
    IF available_regions = << >> THEN secondary_regions[1]
    ELSE Head(SortByKey(available_regions))

select_best_failover_region ==
    IF available_regions = << >> THEN None
    ELSE Head(SortByKey(available_regions))

----------------------------------------------------------------------------
(* The state after __init__.                                               *)

\* no record is waiting to be stored
NoRecord == RegionHealth(None, 0, 0, 0, 0)

IdleFrame ==
    [ from_region |-> None, to_region |-> None,
      dns_success |-> FALSE, cloudfront_success |-> FALSE,
      scaling_success |-> FALSE, verification_success |-> FALSE,
      polls |-> 0, success |-> FALSE, rollback_success |-> FALSE,
      pending |-> NoRecord,      \* the record a poll has built and not stored yet
      dns_rollback |-> FALSE,
      calls |-> << >>,           \* collaborator calls of this attempt, in order
      pre_active |-> None,       \* current_active_region when the call began
      pre_status |-> None ]      \* the source region's status when it began

IdleLoop == [ idx |-> 0, active_region |-> None, target_region |-> None,
              success |-> FALSE ]

\* no cascade-risk assessment is under way
NoRisk == [ service |-> None, region |-> None, failed_checks |-> 0,
            assessed |-> FALSE, risk_score |-> 0,
            analyzed |-> FALSE, alerted |-> FALSE,
            compared |-> FALSE, previous |-> 0 ]

\* no direct health check has been made
NoProbe == [ region |-> None, outcomes |-> << >>, checks |-> 0 ]

\* the dict of get_status before any of its fields is computed
NoReport ==
    [ monitoring_active |-> FALSE, current_active_region |-> None,
      failover_in_progress |-> FALSE, region_health |-> << >>,
      recent_failover_events |-> << >> ]

\* no region has been checked yet
NoneChecked == [ r \in Regions |-> None ]

IdleObs ==
    [ tick_active |-> None,      \* current_active_region when the tick began
      tick_events |-> 0,         \* Len(failover_events) when the tick began
      outcome |-> "none",        \* how the tick's decision ended
      reports |-> 0,             \* "No healthy regions" reports of this tick
      prior_no_target |-> FALSE, \* the previous tick ended without a target
      rollback_failed |-> FALSE, \* an attempt has returned after a failed rollback
      prior_failover |-> FALSE,  \* the previous tick called perform_failover
      report |-> NoReport,       \* the dict a running get_status is building
      probed |-> NoProbe,        \* region and probe outcomes of a direct check
      checked |-> NoneChecked,   \* the status the latest check wrote, per region
      raised |-> 0,              \* statements that have raised an exception
      risk |-> NoRisk ]          \* input and result of a cascade-risk assessment

InitManager(order) ==
    /\ secondary_regions = order
    /\ region_health =
         [ r \in Regions |->
             RegionHealth(IF r = primary_region THEN ACTIVE ELSE STANDBY,
                          100, 0, 0, 0) ]
    /\ current_active_region = primary_region
    /\ failover_events = << >>
    /\ failover_in_progress = FALSE
    /\ is_monitoring = FALSE
    /\ consecutive_failures = [ r \in Regions |-> 0 ]
    /\ pc = [ t \in Threads |-> "idle" ]
    /\ loop = IdleLoop
    /\ frame = [ t \in Threads |-> IdleFrame ]
    /\ obs = IdleObs

Init == InitManager(default_secondary_regions)

----------------------------------------------------------------------------
(* start_monitoring and monitor_loop (thread "monitor").                   *)

\* The monitor thread is started when no earlier one is still running.
start_monitoring ==
    /\ pc["monitor"] \in {"idle", "exited", "died"}
    /\ is_monitoring' = TRUE
    /\ consecutive_failures' = [ r \in Regions |-> 0 ]
    /\ pc' = [ pc EXCEPT !["monitor"] = "while" ]
    /\ UNCHANGED << secondary_regions, region_health, current_active_region,
                    failover_events, failover_in_progress, loop, frame, obs >>

\* while self.is_monitoring:
LoopTest ==
    /\ pc["monitor"] = "while"
    /\ IF is_monitoring
       THEN /\ pc' = [ pc EXCEPT !["monitor"] = "for" ]
            /\ loop' = [ IdleLoop EXCEPT !.idx = 1 ]
            /\ obs' = [ obs EXCEPT !.tick_active = current_active_region,
                                   !.tick_events = Len(failover_events),
                                   !.outcome = "none",
                                   !.reports = 0,
                                   !.prior_no_target = (obs.outcome = "no_target"),
                                   !.prior_failover = (obs.outcome = "failover") ]
       ELSE /\ pc' = [ pc EXCEPT !["monitor"] = "exited" ]
            /\ UNCHANGED << loop, obs >>
    /\ UNCHANGED << secondary_regions, region_health, current_active_region,
                    failover_events, failover_in_progress, is_monitoring,
                    consecutive_failures, frame >>

\* the counter update of lines 631-636
UpdateCounter(counter, health_score) ==
    IF health_score < health_threshold THEN counter + 1 ELSE 0

\* a tick that decides as soon as it has checked the first region
CheckStepFirstOnly(P, L) ==
    /\ pc["monitor"] = "for"
    /\ loop.idx <= Len(all_regions)
    /\ LET region == all_regions[loop.idx] IN
       \E p \in P, rt \in L :
         LET h == check_region_health(region, p, rt) IN
         /\ UpdateCounter(consecutive_failures[region], h.health_score) <= MaxFailures
         /\ region_health' = [ region_health EXCEPT ![region] = h ]
         /\ consecutive_failures' =
              [ consecutive_failures EXCEPT
                  ![region] = UpdateCounter(@, h.health_score) ]
         /\ obs' = [ obs EXCEPT !.checked[region] = h.status ]
    /\ loop' = [ loop EXCEPT !.idx = @ + 1 ]
    /\ pc' = [ pc EXCEPT !["monitor"] = "decide" ]
    /\ UNCHANGED << secondary_regions, current_active_region, failover_events,
                    failover_in_progress, is_monitoring, frame >>

\* one iteration of "for region in self.all_regions"
CheckStep(P, L) ==
    /\ pc["monitor"] = "for"
    /\ loop.idx <= Len(all_regions)
    /\ LET region == all_regions[loop.idx] IN
       \E p \in P, rt \in L :
         LET h == check_region_health(region, p, rt) IN
         /\ UpdateCounter(consecutive_failures[region], h.health_score) <= MaxFailures
         /\ region_health' = [ region_health EXCEPT ![region] = h ]
         /\ consecutive_failures' =
              [ consecutive_failures EXCEPT
                  ![region] = UpdateCounter(@, h.health_score) ]
         /\ obs' = [ obs EXCEPT !.checked[region] = h.status ]
    /\ loop' = [ loop EXCEPT !.idx = @ + 1 ]
    /\ pc' = [ pc EXCEPT !["monitor"] =
                 IF loop.idx = Len(all_regions) THEN "decide" ELSE "for" ]
    /\ UNCHANGED << secondary_regions, current_active_region, failover_events,
                    failover_in_progress, is_monitoring, frame >>

\* a trigger that waits for the counter to reach the threshold
NeedsFailoverAfterThreshold(active_region) ==
    consecutive_failures[active_region] >= consecutive_failures_threshold

\* the condition of lines 642-643
NeedsFailover(active_region) ==
    \/ consecutive_failures[active_region] >= consecutive_failures_threshold
    \/ region_health[active_region].health_score < health_threshold

\* "Check if active region needs failover"
Decide ==
    /\ pc["monitor"] = "decide"
    /\ loop' = [ loop EXCEPT !.active_region = current_active_region ]
    /\ IF NeedsFailover(current_active_region)
       THEN /\ pc' = [ pc EXCEPT !["monitor"] = "select" ]
            /\ obs' = obs
       ELSE /\ pc' = [ pc EXCEPT !["monitor"] = "sleep" ]
            /\ obs' = [ obs EXCEPT !.outcome = "healthy" ]
    /\ UNCHANGED << secondary_regions, region_health, current_active_region,
                    failover_events, failover_in_progress, is_monitoring,
                    consecutive_failures, frame >>

\* a monitor that reports the condition at its onset only
NoTargetReportsAtOnset(prior_no_target) == IF prior_no_target THEN 0 ELSE 1

\* the logger.critical("No healthy regions available for failover!") records
\* the else branch of line 661 emits, given whether the previous tick ended there too
NoTargetReports(prior_no_target) == 1

\* target_region = self.select_best_failover_region(); if target_region: ... else: ...
Select ==
    /\ pc["monitor"] = "select"
    /\ LET target == select_best_failover_region IN
       /\ loop' = [ loop EXCEPT !.target_region = target ]
       /\ IF target # None
          THEN /\ Len(failover_events) < MaxEvents
               /\ pc' = [ pc EXCEPT !["monitor"] = "pf_guard" ]
               /\ frame' = [ frame EXCEPT !["monitor"] =
                    [ IdleFrame EXCEPT
                        !.from_region = loop.active_region,
                        !.to_region = target,
                        !.pre_active = current_active_region,
                        !.pre_status = region_health[loop.active_region].status ] ]
               /\ obs' = [ obs EXCEPT !.outcome = "failover" ]
          ELSE /\ pc' = [ pc EXCEPT !["monitor"] = "sleep" ]
               /\ frame' = frame
               /\ obs' = [ obs EXCEPT !.outcome = "no_target",
                                      !.reports = NoTargetReports(obs.prior_no_target) ]
    /\ UNCHANGED << secondary_regions, region_health, current_active_region,
                    failover_events, failover_in_progress, is_monitoring,
                    consecutive_failures >>

\* a return from perform_failover that clears every counter on success
AfterFailoverResetAll ==
    /\ pc["monitor"] = "pf_return"
    /\ consecutive_failures' =
         IF frame["monitor"].success
         THEN [ r \in Regions |-> 0 ]
         ELSE consecutive_failures
    /\ loop' = [ loop EXCEPT !.success = frame["monitor"].success ]
    /\ frame' = [ frame EXCEPT !["monitor"] = IdleFrame ]
    /\ pc' = [ pc EXCEPT !["monitor"] = "sleep" ]
    /\ obs' = [ obs EXCEPT !.rollback_failed =
                   @ \/ (~frame["monitor"].success /\ ~frame["monitor"].rollback_success) ]
    /\ UNCHANGED << secondary_regions, region_health, current_active_region,
                    failover_events, failover_in_progress, is_monitoring >>

\* success = self.perform_failover(...) has returned
AfterFailover ==
    /\ pc["monitor"] = "pf_return"
    /\ consecutive_failures' =
         IF frame["monitor"].success
         THEN [ consecutive_failures EXCEPT ![loop.active_region] = 0 ]
         ELSE consecutive_failures
    /\ loop' = [ loop EXCEPT !.success = frame["monitor"].success ]
    /\ frame' = [ frame EXCEPT !["monitor"] = IdleFrame ]
    /\ pc' = [ pc EXCEPT !["monitor"] = "sleep" ]
    /\ obs' = [ obs EXCEPT !.rollback_failed =
                   @ \/ (~frame["monitor"].success /\ ~frame["monitor"].rollback_success) ]
    /\ UNCHANGED << secondary_regions, region_health, current_active_region,
                    failover_events, failover_in_progress, is_monitoring >>

\* time.sleep(60)
Sleep ==
    /\ pc["monitor"] = "sleep"
    /\ pc' = [ pc EXCEPT !["monitor"] = "while" ]
    /\ loop' = IdleLoop
    /\ UNCHANGED << secondary_regions, region_health, current_active_region,
                    failover_events, failover_in_progress, is_monitoring,
                    consecutive_failures, frame, obs >>

\* one iteration of "for region in self.all_regions" in which a statement of
\* the try block of check_region_health raises: the except branch of lines
\* 170-185 stores and returns failed_health, whose score is below the
\* threshold, and the loop goes on
CheckStepExcept ==
    /\ pc["monitor"] = "for"
    /\ obs.raised < MaxRaised
    /\ loop.idx <= Len(all_regions)
    /\ LET region == all_regions[loop.idx] IN
         /\ UpdateCounter(consecutive_failures[region],
                          failed_health.health_score) <= MaxFailures
         /\ region_health' = [ region_health EXCEPT ![region] = failed_health ]
         /\ consecutive_failures' =
              [ consecutive_failures EXCEPT
                  ![region] = UpdateCounter(@, failed_health.health_score) ]
         /\ obs' = [ obs EXCEPT !.checked[region] = failed_health.status,
                                !.raised = @ + 1 ]
    /\ loop' = [ loop EXCEPT !.idx = @ + 1 ]
    /\ pc' = [ pc EXCEPT !["monitor"] =
                 IF loop.idx = Len(all_regions) THEN "decide" ELSE "for" ]
    /\ UNCHANGED << secondary_regions, current_active_region, failover_events,
                    failover_in_progress, is_monitoring, frame >>

\* one iteration of the for loop that raises after check_region_health has
\* stored a record: the check itself raises once it has stored the record of
\* its try block (the log calls of lines 164 and 171), the counter being left
\* alone, or the check returns a record with a score below the threshold, the
\* counter is incremented by line 632 and the log call of line 633 raises
CheckStepRaises(P, L) ==
    /\ pc["monitor"] = "for"
    /\ obs.raised < MaxRaised
    /\ loop.idx <= Len(all_regions)
    /\ LET region == all_regions[loop.idx] IN
         \/ \E p \in P, rt \in L :
              LET h == check_region_health(region, p, rt) IN
              /\ region_health' = [ region_health EXCEPT ![region] = h ]
              /\ obs' = [ obs EXCEPT !.checked[region] = h.status,
                                     !.outcome = "error",
                                     !.raised = @ + 1 ]
              /\ \/ consecutive_failures' = consecutive_failures
                 \/ /\ h.health_score < health_threshold
                    /\ consecutive_failures[region] < MaxFailures
                    /\ consecutive_failures' =
                         [ consecutive_failures EXCEPT ![region] = @ + 1 ]
         \/ /\ consecutive_failures[region] < MaxFailures
            /\ region_health' = [ region_health EXCEPT ![region] = failed_health ]
            /\ obs' = [ obs EXCEPT !.checked[region] = failed_health.status,
                                   !.outcome = "error",
                                   !.raised = @ + 1 ]
            /\ consecutive_failures' =
                 [ consecutive_failures EXCEPT ![region] = @ + 1 ]
    /\ pc' = [ pc EXCEPT !["monitor"] = "backoff" ]
    /\ UNCHANGED << secondary_regions, current_active_region, failover_events,
                    failover_in_progress, is_monitoring, loop, frame >>

\* the positions of a tick at which a statement of the try block of lines
\* 626-665 can raise an exception that reaches line 667: the statements of
\* the loop itself, the sleep included, the statements of perform_failover
\* that are outside its own try block (lines 359-367), and the call of
\* perform_failover when an exception has left it
TickPositions ==
    { "for", "decide", "select", "pf_guard", "pf_set", "pf_raised", "pf_return",
      "sleep" }

\* a statement of the tick raises: control goes to "except Exception as e".
\* At "for" the check raises before it has stored a record; at "decide" it is
\* the log call of line 645, which runs when the active region needs a
\* failover; at pf_guard it is the log call of line 360, which runs when the
\* flag is set; at pf_set the flag has been set by line 363 when a statement
\* of lines 364-367 raises, and nothing clears it; at pf_return the counter of
\* the source has been reset by line 657 when the log call of line 658 raises.
TickRaises ==
    /\ pc["monitor"] \in TickPositions
    /\ pc["monitor"] = "decide" => NeedsFailover(current_active_region)
    /\ pc["monitor"] = "pf_guard" => failover_in_progress
    /\ pc["monitor"] # "pf_raised" => obs.raised < MaxRaised
    /\ pc' = [ pc EXCEPT !["monitor"] = "backoff" ]
    /\ obs' = [ obs EXCEPT !.outcome = "error",
                           !.raised = IF pc["monitor"] = "pf_raised" THEN @ ELSE @ + 1 ]
    /\ failover_in_progress' =
         IF pc["monitor"] = "pf_set" THEN TRUE ELSE failover_in_progress
    /\ consecutive_failures' =
         IF pc["monitor"] = "pf_return" /\ frame["monitor"].success
         THEN [ consecutive_failures EXCEPT ![loop.active_region] = 0 ]
         ELSE consecutive_failures
    /\ frame' =
         IF pc["monitor"] \in { "pf_guard", "pf_set", "pf_raised", "pf_return" }
         THEN [ frame EXCEPT !["monitor"] = IdleFrame ]
         ELSE frame
    /\ UNCHANGED << secondary_regions, region_health, current_active_region,
                    failover_events, is_monitoring, loop >>

\* logger.error(...); time.sleep(30), and back to the loop test
Backoff ==
    /\ pc["monitor"] = "backoff"
    /\ pc' = [ pc EXCEPT !["monitor"] = "while" ]
    /\ loop' = IdleLoop
    /\ UNCHANGED << secondary_regions, region_health, current_active_region,
                    failover_events, failover_in_progress, is_monitoring,
                    consecutive_failures, frame, obs >>

\* a statement of the except clause itself raises (the log call of line 668
\* or the sleep of line 669): nothing catches the exception and the thread ends
BackoffRaises ==
    /\ pc["monitor"] = "backoff"
    /\ obs.raised < MaxRaised
    /\ pc' = [ pc EXCEPT !["monitor"] = "died" ]
    /\ loop' = IdleLoop
    /\ obs' = [ obs EXCEPT !.raised = @ + 1 ]
    /\ UNCHANGED << secondary_regions, region_health, current_active_region,
                    failover_events, failover_in_progress, is_monitoring,
                    consecutive_failures, frame >>

\* start_monitoring whose log call of line 620 raises: is_monitoring has been
\* set by line 619 and no thread is started
start_monitoring_raises ==
    /\ pc["monitor"] \in {"idle", "exited", "died"}
    /\ obs.raised < MaxRaised
    /\ is_monitoring' = TRUE
    /\ obs' = [ obs EXCEPT !.raised = @ + 1 ]
    /\ UNCHANGED << secondary_regions, region_health, current_active_region,
                    failover_events, failover_in_progress, consecutive_failures,
                    pc, loop, frame >>

----------------------------------------------------------------------------
(* perform_failover, called by thread t with frame[t].from_region and      *)
(* frame[t].to_region.                                                     *)

\* a guard whose skipped call leaves through the finally clause
pf_guard_in_try(t) ==
    /\ pc[t] = "pf_guard"
    /\ IF failover_in_progress
       THEN /\ pc' = [ pc EXCEPT ![t] = "pf_return" ]
            /\ frame' = [ frame EXCEPT ![t].success = FALSE ]
            /\ failover_in_progress' = FALSE
       ELSE /\ pc' = [ pc EXCEPT ![t] = "pf_set" ]
            /\ frame' = frame
            /\ UNCHANGED failover_in_progress
    /\ UNCHANGED << secondary_regions, region_health, current_active_region,
                    failover_events, is_monitoring,
                    consecutive_failures, loop, obs >>

\* if self.failover_in_progress: ... return False
pf_guard(t) ==
    /\ pc[t] = "pf_guard"
    /\ IF failover_in_progress
       THEN /\ pc' = [ pc EXCEPT ![t] = "pf_return" ]
            /\ frame' = [ frame EXCEPT ![t].success = FALSE ]
       ELSE /\ pc' = [ pc EXCEPT ![t] = "pf_set" ]
            /\ frame' = frame
    /\ UNCHANGED << secondary_regions, region_health, current_active_region,
                    failover_events, failover_in_progress, is_monitoring,
                    consecutive_failures, loop, obs >>

\* self.failover_in_progress = True
pf_set(t) ==
    /\ pc[t] = "pf_set"
    /\ failover_in_progress' = TRUE
    /\ pc' = [ pc EXCEPT ![t] = "pf_dns" ]
    /\ UNCHANGED << secondary_regions, region_health, current_active_region,
                    failover_events, is_monitoring, consecutive_failures,
                    loop, frame, obs >>

\* a first step whose failure leaves the try block at once
pf_dns_raises(t) ==
    /\ pc[t] = "pf_dns"
    /\ \E ok \in BOOLEAN :
         /\ frame' = [ frame EXCEPT
                ![t].dns_success = ok,
                ![t].calls = Append(@, << "dns", frame[t].from_region,
                                          frame[t].to_region >>) ]
         /\ pc' = [ pc EXCEPT ![t] = IF ok THEN "pf_cloudfront" ELSE "pf_finally" ]
    /\ UNCHANGED << secondary_regions, region_health, current_active_region,
                    failover_events, failover_in_progress, is_monitoring,
                    consecutive_failures, loop, obs >>

\* Step 1: dns_success = self._update_dns_records(from_region, to_region)
pf_dns(t) ==
    /\ pc[t] = "pf_dns"
    /\ \E ok \in BOOLEAN :
         frame' = [ frame EXCEPT
             ![t].dns_success = ok,
             ![t].calls = Append(@, << "dns", frame[t].from_region,
                                       frame[t].to_region >>) ]
    /\ pc' = [ pc EXCEPT ![t] = "pf_cloudfront" ]
    /\ UNCHANGED << secondary_regions, region_health, current_active_region,
                    failover_events, failover_in_progress, is_monitoring,
                    consecutive_failures, loop, obs >>

\* a second step after which a failed routing change ends the steps
pf_cloudfront_short_circuit(t) ==
    /\ pc[t] = "pf_cloudfront"
    /\ \E ok \in BOOLEAN :
         /\ frame' = [ frame EXCEPT
                ![t].cloudfront_success = ok,
                ![t].calls = Append(@, << "cloudfront", frame[t].from_region,
                                          frame[t].to_region >>) ]
         /\ pc' = [ pc EXCEPT ![t] =
                      IF frame[t].dns_success /\ ok THEN "pf_scale" ELSE "pf_branch" ]
    /\ UNCHANGED << secondary_regions, region_health, current_active_region,
                    failover_events, failover_in_progress, is_monitoring,
                    consecutive_failures, loop, obs >>

\* Step 2: cloudfront_success = self._update_cloudfront_origins(from_region, to_region)
pf_cloudfront(t) ==
    /\ pc[t] = "pf_cloudfront"
    /\ \E ok \in BOOLEAN :
         frame' = [ frame EXCEPT
             ![t].cloudfront_success = ok,
             ![t].calls = Append(@, << "cloudfront", frame[t].from_region,
                                       frame[t].to_region >>) ]
    /\ pc' = [ pc EXCEPT ![t] = "pf_scale" ]
    /\ UNCHANGED << secondary_regions, region_health, current_active_region,
                    failover_events, failover_in_progress, is_monitoring,
                    consecutive_failures, loop, obs >>

\* a third step that gives the attempt up once monitoring has been stopped
pf_scale_unless_stopped(t) ==
    /\ pc[t] = "pf_scale"
    /\ IF is_monitoring
       THEN /\ \E ok \in BOOLEAN :
                 frame' = [ frame EXCEPT
                     ![t].scaling_success = ok,
                     ![t].calls = Append(@, << "scale", frame[t].to_region >>) ]
            /\ pc' = [ pc EXCEPT ![t] = "pf_verify" ]
       ELSE /\ frame' = frame
            /\ pc' = [ pc EXCEPT ![t] = "pf_return" ]
    /\ UNCHANGED << secondary_regions, region_health, current_active_region,
                    failover_events, failover_in_progress, is_monitoring,
                    consecutive_failures, loop, obs >>

\* Step 3: scaling_success = self._scale_up_target_region(to_region)
pf_scale(t) ==
    /\ pc[t] = "pf_scale"
    /\ \E ok \in BOOLEAN :
         frame' = [ frame EXCEPT
             ![t].scaling_success = ok,
             ![t].calls = Append(@, << "scale", frame[t].to_region >>) ]
    /\ pc' = [ pc EXCEPT ![t] = "pf_verify" ]
    /\ UNCHANGED << secondary_regions, region_health, current_active_region,
                    failover_events, failover_in_progress, is_monitoring,
                    consecutive_failures, loop, obs >>

\* the readiness test of lines 575-576
TargetReady(h) ==
    /\ h.health_score >= health_threshold
    /\ h.response_time < response_time_threshold

\* Step 4: one round of the loop of _verify_target_region(to_region).  While
\* the wait is not over, check_region_health(to_region) runs its probes and
\* builds its record (lines 109-160): it reads the status of the region (line
\* 142) or current_active_region (line 149), and the record is stored later,
\* by line 162.  When the wait is over the verification has failed.
pf_verify(t, P, L) ==
    /\ pc[t] = "pf_verify"
    /\ IF frame[t].polls < MaxPolls
       THEN \E p \in P, rt \in L :
              LET h == check_region_health(frame[t].to_region, p, rt) IN
              /\ frame' = [ frame EXCEPT
                     ![t].pending = h,
                     ![t].calls = IF frame[t].polls = 0
                                  THEN Append(@, << "verify", frame[t].to_region >>)
                                  ELSE @ ]
              /\ pc' = [ pc EXCEPT ![t] = "pf_verify_store" ]
       ELSE /\ frame' = [ frame EXCEPT ![t].verification_success = FALSE ]
            /\ pc' = [ pc EXCEPT ![t] = "pf_branch" ]
    /\ UNCHANGED << secondary_regions, region_health, current_active_region,
                    failover_events, failover_in_progress, is_monitoring,
                    consecutive_failures, loop, obs >>

\* self.region_health[region] = region_health (line 162), the return of the
\* record and the readiness test of the verification on it
pf_verify_store(t) ==
    /\ pc[t] = "pf_verify_store"
    /\ LET h == frame[t].pending IN
       /\ region_health' = [ region_health EXCEPT ![frame[t].to_region] = h ]
       /\ frame' = [ frame EXCEPT
              ![t].verification_success = TargetReady(h),
              ![t].polls = @ + 1,
              ![t].pending = NoRecord ]
       /\ pc' = [ pc EXCEPT ![t] =
                    IF TargetReady(h) THEN "pf_branch" ELSE "pf_verify" ]
       /\ obs' = [ obs EXCEPT !.checked[frame[t].to_region] = h.status ]
    /\ UNCHANGED << secondary_regions, current_active_region, failover_events,
                    failover_in_progress, is_monitoring, consecutive_failures,
                    loop >>

\* a success that does not wait for the scale-up
AllStepsButScaling(dns, cloudfront, scaling, verification) ==
    dns /\ cloudfront /\ verification

\* success = dns_success and cloudfront_success and scaling_success and verification_success
AllSteps(dns, cloudfront, scaling, verification) ==
    dns /\ cloudfront /\ scaling /\ verification

\* line 382 and the branch of line 384
pf_branch(t) ==
    /\ pc[t] = "pf_branch"
    /\ LET success == AllSteps(frame[t].dns_success, frame[t].cloudfront_success,
                               frame[t].scaling_success, frame[t].verification_success)
       IN /\ frame' = [ frame EXCEPT ![t].success = success ]
          /\ pc' = [ pc EXCEPT ![t] = IF success THEN "pf_commit_active" ELSE "rb_dns" ]
    /\ UNCHANGED << secondary_regions, region_health, current_active_region,
                    failover_events, failover_in_progress, is_monitoring,
                    consecutive_failures, loop, obs >>

\* a commit that leaves current_active_region on the source region
pf_commit_active_kept(t) ==
    /\ pc[t] = "pf_commit_active"
    /\ pc' = [ pc EXCEPT ![t] = "pf_commit_to" ]
    /\ UNCHANGED << secondary_regions, region_health, current_active_region,
                    failover_events, failover_in_progress, is_monitoring,
                    consecutive_failures, loop, frame, obs >>

\* self.current_active_region = to_region
pf_commit_active(t) ==
    /\ pc[t] = "pf_commit_active"
    /\ current_active_region' = frame[t].to_region
    /\ pc' = [ pc EXCEPT ![t] = "pf_commit_to" ]
    /\ UNCHANGED << secondary_regions, region_health, failover_events,
                    failover_in_progress, is_monitoring, consecutive_failures,
                    loop, frame, obs >>

\* a commit that leaves the target region on standby
pf_commit_to_standby(t) ==
    /\ pc[t] = "pf_commit_to"
    /\ region_health' = [ region_health EXCEPT ![frame[t].to_region].status = STANDBY ]
    /\ pc' = [ pc EXCEPT ![t] = "pf_commit_from" ]
    /\ UNCHANGED << secondary_regions, current_active_region, failover_events,
                    failover_in_progress, is_monitoring, consecutive_failures,
                    loop, frame, obs >>

\* self.region_health[to_region].status = FailoverStatus.ACTIVE
pf_commit_to(t) ==
    /\ pc[t] = "pf_commit_to"
    /\ region_health' = [ region_health EXCEPT ![frame[t].to_region].status = ACTIVE ]
    /\ pc' = [ pc EXCEPT ![t] = "pf_commit_from" ]
    /\ UNCHANGED << secondary_regions, current_active_region, failover_events,
                    failover_in_progress, is_monitoring, consecutive_failures,
                    loop, frame, obs >>

\* self.region_health[from_region].status = FailoverStatus.FAILED
pf_commit_from(t) ==
    /\ pc[t] = "pf_commit_from"
    /\ region_health' = [ region_health EXCEPT ![frame[t].from_region].status = FAILED ]
    /\ pc' = [ pc EXCEPT ![t] = "pf_event" ]
    /\ UNCHANGED << secondary_regions, current_active_region, failover_events,
                    failover_in_progress, is_monitoring, consecutive_failures,
                    loop, frame, obs >>

----------------------------------------------------------------------------
(* _rollback_failover(to_region, from_region), inside perform_failover.    *)

\* a rollback that re-issues the DNS switch in the forward direction
rb_dns_forward(t) ==
    /\ pc[t] = "rb_dns"
    /\ \E ok \in BOOLEAN :
         frame' = [ frame EXCEPT
             ![t].dns_rollback = ok,
             ![t].calls = Append(@, << "dns", frame[t].from_region,
                                       frame[t].to_region >>) ]
    /\ pc' = [ pc EXCEPT ![t] = "rb_cloudfront" ]
    /\ UNCHANGED << secondary_regions, region_health, current_active_region,
                    failover_events, failover_in_progress, is_monitoring,
                    consecutive_failures, loop, obs >>

\* dns_rollback = self._update_dns_records(failed_region, original_region)
rb_dns(t) ==
    /\ pc[t] = "rb_dns"
    /\ \E ok \in BOOLEAN :
         frame' = [ frame EXCEPT
             ![t].dns_rollback = ok,
             ![t].calls = Append(@, << "dns", frame[t].to_region,
                                       frame[t].from_region >>) ]
    /\ pc' = [ pc EXCEPT ![t] = "rb_cloudfront" ]
    /\ UNCHANGED << secondary_regions, region_health, current_active_region,
                    failover_events, failover_in_progress, is_monitoring,
                    consecutive_failures, loop, obs >>

\* success = dns_rollback and cloudfront_rollback
RollbackSuccess(dns_rollback, cloudfront_rollback) ==
    dns_rollback /\ cloudfront_rollback

\* cloudfront_rollback = self._update_cloudfront_origins(failed_region, original_region)
\* and the branch of line 604
rb_cloudfront(t) ==
    /\ pc[t] = "rb_cloudfront"
    /\ \E ok \in BOOLEAN :
         LET success == RollbackSuccess(frame[t].dns_rollback, ok) IN
         /\ frame' = [ frame EXCEPT
                ![t].rollback_success = success,
                ![t].calls = Append(@, << "cloudfront", frame[t].to_region,
                                          frame[t].from_region >>) ]
         /\ pc' = [ pc EXCEPT ![t] = IF success THEN "rb_commit_active"
                                                ELSE "pf_event" ]
    /\ UNCHANGED << secondary_regions, region_health, current_active_region,
                    failover_events, failover_in_progress, is_monitoring,
                    consecutive_failures, loop, obs >>

\* self.current_active_region = original_region
rb_commit_active(t) ==
    /\ pc[t] = "rb_commit_active"
    /\ current_active_region' = frame[t].from_region
    /\ pc' = [ pc EXCEPT ![t] = "rb_commit_status" ]
    /\ UNCHANGED << secondary_regions, region_health, failover_events,
                    failover_in_progress, is_monitoring, consecutive_failures,
                    loop, frame, obs >>

\* a rollback that marks the original region FAILED
rb_commit_status_failed(t) ==
    /\ pc[t] = "rb_commit_status"
    /\ region_health' = [ region_health EXCEPT ![frame[t].from_region].status = FAILED ]
    /\ pc' = [ pc EXCEPT ![t] = "pf_event" ]
    /\ UNCHANGED << secondary_regions, current_active_region, failover_events,
                    failover_in_progress, is_monitoring, consecutive_failures,
                    loop, frame, obs >>

\* self.region_health[original_region].status = FailoverStatus.ACTIVE
rb_commit_status(t) ==
    /\ pc[t] = "rb_commit_status"
    /\ region_health' = [ region_health EXCEPT ![frame[t].from_region].status = ACTIVE ]
    /\ pc' = [ pc EXCEPT ![t] = "pf_event" ]
    /\ UNCHANGED << secondary_regions, current_active_region, failover_events,
                    failover_in_progress, is_monitoring, consecutive_failures,
                    loop, frame, obs >>

----------------------------------------------------------------------------
(* The end of perform_failover.                                            *)

\* an event that does not record the rollback
FailoverEventNoRollback(from_region, to_region, success) ==
    [ from_region |-> from_region, to_region |-> to_region,
      success |-> success, rollback_performed |-> FALSE ]

\* an event that reports a rollback for every attempt
FailoverEventAlwaysRolledBack(from_region, to_region, success) ==
    [ from_region |-> from_region, to_region |-> to_region,
      success |-> success, rollback_performed |-> TRUE ]

\* the FailoverEvent of lines 396-405
FailoverEvent(from_region, to_region, success) ==
    [ from_region |-> from_region, to_region |-> to_region,
      success |-> success, rollback_performed |-> ~success ]

\* an append that records successful attempts only
pf_event_success_only(t) ==
    /\ pc[t] = "pf_event"
    /\ failover_events' =
         IF frame[t].success
         THEN Append(failover_events,
                     FailoverEvent(frame[t].from_region, frame[t].to_region,
                                   frame[t].success))
         ELSE failover_events
    /\ pc' = [ pc EXCEPT ![t] = "pf_finally" ]
    /\ UNCHANGED << secondary_regions, region_health, current_active_region,
                    failover_in_progress, is_monitoring, consecutive_failures,
                    loop, frame, obs >>

\* self.failover_events.append(failover_event)
pf_event(t) ==
    /\ pc[t] = "pf_event"
    /\ failover_events' =
         Append(failover_events,
                FailoverEvent(frame[t].from_region, frame[t].to_region,
                              frame[t].success))
    /\ pc' = [ pc EXCEPT ![t] = "pf_finally" ]
    /\ UNCHANGED << secondary_regions, region_health, current_active_region,
                    failover_in_progress, is_monitoring, consecutive_failures,
                    loop, frame, obs >>

\* finally: self.failover_in_progress = False, and then the return of the
\* try block or of the except clause, or, when the except clause has raised
\* (position pf_unwind), the exception on its way to the caller
pf_finally(t) ==
    /\ pc[t] \in { "pf_finally", "pf_unwind" }
    /\ failover_in_progress' = FALSE
    /\ pc' = [ pc EXCEPT ![t] = IF pc[t] = "pf_unwind" THEN "pf_raised"
                                                         ELSE "pf_return" ]
    /\ UNCHANGED << secondary_regions, region_health, current_active_region,
                    failover_events, is_monitoring, consecutive_failures,
                    loop, frame, obs >>

\* the positions between setting and clearing failover_in_progress
Orchestrating ==
    { "pf_dns", "pf_cloudfront", "pf_scale", "pf_verify", "pf_verify_store",
      "pf_branch", "pf_commit_active", "pf_commit_to", "pf_commit_from",
      "rb_dns", "rb_cloudfront", "rb_commit_active", "rb_commit_status",
      "pf_event", "pf_finally", "pf_unwind" }

perform_failover(t, P, L) ==
    \/ pf_guard(t) \/ pf_set(t)
    \/ pf_dns(t) \/ pf_cloudfront(t) \/ pf_scale(t)
    \/ pf_verify(t, P, L) \/ pf_verify_store(t)
    \/ pf_branch(t)
    \/ pf_commit_active(t) \/ pf_commit_to(t) \/ pf_commit_from(t)
    \/ rb_dns(t) \/ rb_cloudfront(t) \/ rb_commit_active(t) \/ rb_commit_status(t)
    \/ pf_event(t) \/ pf_finally(t)

----------------------------------------------------------------------------
(* The manager driven by its monitor loop alone.                           *)

monitor_loop(P, L) ==
    \/ LoopTest \/ CheckStep(P, L) \/ Decide \/ Select
    \/ perform_failover("monitor", P, L)
    \/ AfterFailover \/ Sleep

Next ==
    \/ start_monitoring
    \/ monitor_loop(ProbeSample, LatencySample)

Spec == Init /\ [][Next]_vars

----------------------------------------------------------------------------
(* Direct callers of perform_failover on the same manager (threads         *)
(* "manual" and "operator"): the method is public, and nothing but the     *)
(* failover_in_progress test keeps two calls apart.                        *)

Callers == { "manual", "operator" }

\* a caller asks to move the traffic away from the active region
ManualCall(t) ==
    /\ pc[t] = "idle"
    /\ Len(failover_events) < MaxEvents
    /\ \E to_region \in Regions \ { current_active_region } :
         frame' = [ frame EXCEPT ![t] =
              [ IdleFrame EXCEPT
                  !.from_region = current_active_region,
                  !.to_region = to_region,
                  !.pre_active = current_active_region,
                  !.pre_status = region_health[current_active_region].status ] ]
    /\ pc' = [ pc EXCEPT ![t] = "pf_guard" ]
    /\ UNCHANGED << secondary_regions, region_health, current_active_region,
                    failover_events, failover_in_progress, is_monitoring,
                    consecutive_failures, loop, obs >>

ManualReturn(t) ==
    /\ pc[t] = "pf_return"
    /\ pc' = [ pc EXCEPT ![t] = "idle" ]
    /\ frame' = [ frame EXCEPT ![t] = IdleFrame ]
    /\ UNCHANGED << secondary_regions, region_health, current_active_region,
                    failover_events, failover_in_progress, is_monitoring,
                    consecutive_failures, loop, obs >>

\* the answers the two-caller runs draw: every probe healthy and fast, so that
\* an attempt fails only when a routing or scaling collaborator does
HealthyProbe == { [ elb |-> TRUE, ec2 |-> TRUE, rds |-> TRUE, ecs |-> TRUE ] }

FastLatency == { 1 }

NextConc ==
    \E t \in Callers :
        \/ ManualCall(t)
        \/ perform_failover(t, HealthyProbe, FastLatency)
        \/ ManualReturn(t)

SpecConc == Init /\ [][NextConc]_vars

----------------------------------------------------------------------------
(* The monitor loop up to its first call of perform_failover, for both     *)
(* orders of the standby list and three health scores at three latencies:  *)
(* the runs in which the target selection is examined.                     *)

Orders ==
    { order \in [ 1..Len(default_secondary_regions) -> Regions \ { primary_region } ] :
        \A i, j \in DOMAIN order : order[i] = order[j] => i = j }

InitSelect == \E order \in Orders : InitManager(order)

NextSelect ==
    \/ start_monitoring
    \/ LoopTest \/ CheckStep(ProbeScores, Latencies) \/ Decide \/ Select \/ Sleep

SpecSelect == InitSelect /\ [][NextSelect]_vars

----------------------------------------------------------------------------
(* get_status, called by thread t: the fields of the returned dict are     *)
(* computed one after the other, in the order of the dict display.         *)

StatusCall(t) ==
    /\ pc[t] = "idle"
    /\ pc' = [ pc EXCEPT ![t] = "gs_monitoring" ]
    /\ obs' = [ obs EXCEPT !.report = NoReport ]
    /\ UNCHANGED << secondary_regions, region_health, current_active_region,
                    failover_events, failover_in_progress, is_monitoring,
                    consecutive_failures, loop, frame >>

\* 'monitoring_active': self.is_monitoring
gs_monitoring(t) ==
    /\ pc[t] = "gs_monitoring"
    /\ obs' = [ obs EXCEPT !.report.monitoring_active = is_monitoring ]
    /\ pc' = [ pc EXCEPT ![t] = "gs_active" ]
    /\ UNCHANGED << secondary_regions, region_health, current_active_region,
                    failover_events, failover_in_progress, is_monitoring,
                    consecutive_failures, loop, frame >>

\* 'current_active_region': self.current_active_region
gs_active(t) ==
    /\ pc[t] = "gs_active"
    /\ obs' = [ obs EXCEPT !.report.current_active_region = current_active_region ]
    /\ pc' = [ pc EXCEPT ![t] = "gs_in_progress" ]
    /\ UNCHANGED << secondary_regions, region_health, current_active_region,
                    failover_events, failover_in_progress, is_monitoring,
                    consecutive_failures, loop, frame >>

\* 'failover_in_progress': self.failover_in_progress
gs_in_progress(t) ==
    /\ pc[t] = "gs_in_progress"
    /\ obs' = [ obs EXCEPT !.report.failover_in_progress = failover_in_progress ]
    /\ pc' = [ pc EXCEPT ![t] = "gs_region" ]
    /\ UNCHANGED << secondary_regions, region_health, current_active_region,
                    failover_events, failover_in_progress, is_monitoring,
                    consecutive_failures, loop, frame >>

\* one item of "for region, health in self.region_health.items()": the dict
\* was filled in the order of all_regions
gs_region(t) ==
    /\ pc[t] = "gs_region"
    /\ LET region == all_regions[Len(obs.report.region_health) + 1] IN
         obs' = [ obs EXCEPT !.report.region_health =
                    Append(@, << region, region_health[region].status >>) ]
    /\ pc' = [ pc EXCEPT ![t] =
                 IF Len(obs.report.region_health) + 1 = Len(all_regions)
                 THEN "gs_events" ELSE "gs_region" ]
    /\ UNCHANGED << secondary_regions, region_health, current_active_region,
                    failover_events, failover_in_progress, is_monitoring,
                    consecutive_failures, loop, frame >>

\* how many events get_status reports
recent_events_limit == 10

\* events[-recent_events_limit:]
LastEvents(events) ==
    SubSeq(events,
           IF Len(events) > recent_events_limit
           THEN Len(events) - recent_events_limit + 1 ELSE 1,
           Len(events))

\* 'recent_failover_events': [... for event in self.failover_events[-10:]]
gs_events(t) ==
    /\ pc[t] = "gs_events"
    /\ obs' = [ obs EXCEPT !.report.recent_failover_events =
                              LastEvents(failover_events) ]
    /\ pc' = [ pc EXCEPT ![t] = "gs_return" ]
    /\ UNCHANGED << secondary_regions, region_health, current_active_region,
                    failover_events, failover_in_progress, is_monitoring,
                    consecutive_failures, loop, frame >>

\* the caller has the dict and drops it
StatusReturn(t) ==
    /\ pc[t] = "gs_return"
    /\ pc' = [ pc EXCEPT ![t] = "idle" ]
    /\ obs' = [ obs EXCEPT !.report = NoReport ]
    /\ UNCHANGED << secondary_regions, region_health, current_active_region,
                    failover_events, failover_in_progress, is_monitoring,
                    consecutive_failures, loop, frame >>

get_status(t) ==
    \/ gs_monitoring(t) \/ gs_active(t) \/ gs_in_progress(t)
    \/ gs_region(t) \/ gs_events(t)

----------------------------------------------------------------------------
(* One operator who, again and again, either moves the traffic between the *)
(* primary region and the first standby region or asks for the status.     *)

RepeatedCall(t) ==
    /\ pc[t] = "idle"
    /\ Len(failover_events) < MaxLogged
    /\ \E to_region \in { primary_region, secondary_regions[1] }
                           \ { current_active_region } :
         frame' = [ frame EXCEPT ![t] =
              [ IdleFrame EXCEPT
                  !.from_region = current_active_region,
                  !.to_region = to_region,
                  !.pre_active = current_active_region,
                  !.pre_status = region_health[current_active_region].status ] ]
    /\ pc' = [ pc EXCEPT ![t] = "pf_guard" ]
    /\ UNCHANGED << secondary_regions, region_health, current_active_region,
                    failover_events, failover_in_progress, is_monitoring,
                    consecutive_failures, loop, obs >>

NextLog ==
    \/ RepeatedCall("operator")
    \/ perform_failover("operator", HealthyProbe, FastLatency)
    \/ ManualReturn("operator")
    \/ StatusCall("operator")
    \/ get_status("operator")
    \/ StatusReturn("operator")

SpecLog == Init /\ [][NextLog]_vars

----------------------------------------------------------------------------
(* A direct caller of perform_failover (thread "manual") and a reader of   *)
(* the status (thread "operator") on the same manager.                     *)

NextRead ==
    \/ ManualCall("manual")
    \/ perform_failover("manual", HealthyProbe, FastLatency)
    \/ ManualReturn("manual")
    \/ StatusCall("operator")
    \/ get_status("operator")
    \/ StatusReturn("operator")

SpecRead == Init /\ [][NextRead]_vars

----------------------------------------------------------------------------
(* Two threads that each call perform_failover once.                       *)

\* the caller has the result and makes no further call
CallerDone(t) ==
    /\ pc[t] = "pf_return"
    /\ pc' = [ pc EXCEPT ![t] = "done" ]
    /\ frame' = [ frame EXCEPT ![t] = IdleFrame ]
    /\ UNCHANGED << secondary_regions, region_health, current_active_region,
                    failover_events, failover_in_progress, is_monitoring,
                    consecutive_failures, loop, obs >>

NextOnce ==
    \E t \in Callers :
        \/ ManualCall(t)
        \/ perform_failover(t, HealthyProbe, FastLatency)
        \/ CallerDone(t)

SpecOnce == Init /\ [][NextOnce]_vars

----------------------------------------------------------------------------
(* One call of perform_failover whose target answers the polls of the     *)
(* verification with either probe sample at a latency below, at or above   *)
(* response_time_threshold.                                                *)

NextVerify ==
    \/ ManualCall("manual")
    \/ perform_failover("manual", ProbeSample, Latencies)
    \/ CallerDone("manual")

SpecVerify == Init /\ [][NextVerify]_vars

----------------------------------------------------------------------------
(* Monitoring that is stopped and started again.                           *)

\* stop_monitoring: self.is_monitoring = False
stop_monitoring ==
    /\ is_monitoring
    /\ is_monitoring' = FALSE
    /\ UNCHANGED << secondary_regions, region_health, current_active_region,
                    failover_events, failover_in_progress, consecutive_failures,
                    pc, loop, frame, obs >>

NextSched ==
    \/ start_monitoring
    \/ stop_monitoring
    \/ monitor_loop(ProbeSample, FastLatency)

SpecSched == Init /\ [][NextSched]_vars

\* the monitor thread keeps being scheduled: its sleeps
\* end and each of its steps is taken in the end
SpecSchedFair == SpecSched /\ WF_vars(monitor_loop(ProbeSample, FastLatency))

----------------------------------------------------------------------------
(* start_monitoring called while the monitor thread of an earlier call is  *)
(* still in its loop: the call starts one more thread (thread "operator"), *)
(* which is followed up to the start of its first tick.                    *)

\* self.is_monitoring = True; threading.Thread(target=monitor_loop).start():
\* the method tests nothing before it starts the thread
start_monitoring_again ==
    /\ pc["monitor"] \notin { "idle", "exited" }
    /\ pc["operator"] = "idle"
    /\ is_monitoring' = TRUE
    /\ pc' = [ pc EXCEPT !["operator"] = "while" ]
    /\ UNCHANGED << secondary_regions, region_health, current_active_region,
                    failover_events, failover_in_progress, consecutive_failures,
                    loop, frame, obs >>

\* while self.is_monitoring: in the second thread
SecondLoopTest ==
    /\ pc["operator"] = "while"
    /\ pc' = [ pc EXCEPT !["operator"] = IF is_monitoring THEN "for" ELSE "exited" ]
    /\ UNCHANGED << secondary_regions, region_health, current_active_region,
                    failover_events, failover_in_progress, is_monitoring,
                    consecutive_failures, loop, frame, obs >>

NextStart ==
    \/ start_monitoring
    \/ start_monitoring_again
    \/ stop_monitoring
    \/ monitor_loop(ProbeSample, FastLatency)
    \/ SecondLoopTest

SpecStart == Init /\ [][NextStart]_vars

----------------------------------------------------------------------------
(* check_region_health called directly, with each of the four subsystem    *)
(* probes finding its services in order, finding them degraded, or raising *)
(* (a transport error, a missing client).                                  *)

ProbeOutcomes == { "ok", "degraded", "raises" }

\* a probe that takes an exception for good news
check_service_health_optimistic(outcome) == outcome # "degraded"

\* _check_elb_health, _check_ec2_health, _check_rds_health, _check_ecs_health:
\* the verdict of the try block, and False from "except Exception"
check_service_health(outcome) ==
    IF outcome = "raises" THEN FALSE ELSE outcome = "ok"

\* the four booleans check_region_health gets from its probes
ProbeAnswers(outcomes) ==
    [ elb |-> check_service_health(outcomes[1]),
      ec2 |-> check_service_health(outcomes[2]),
      rds |-> check_service_health(outcomes[3]),
      ecs |-> check_service_health(outcomes[4]) ]

\* region_health = self.check_region_health(region), called by any thread
HealthCheck ==
    \E region \in Regions, outcomes \in [ 1..4 -> ProbeOutcomes ],
       rt \in FastLatency :
        /\ obs.probed.checks < MaxChecks
        /\ region_health' =
             [ region_health EXCEPT
                 ![region] = check_region_health(region, ProbeAnswers(outcomes), rt) ]
        /\ obs' = [ obs EXCEPT !.probed = [ region |-> region, outcomes |-> outcomes,
                                            checks |-> @.checks + 1 ],
                               !.checked[region] =
                                   check_region_health(region, ProbeAnswers(outcomes),
                                                       rt).status ]
        /\ UNCHANGED << secondary_regions, current_active_region, failover_events,
                        failover_in_progress, is_monitoring, consecutive_failures,
                        pc, loop, frame >>

NextProbe == HealthCheck

SpecProbe == Init /\ [][NextProbe]_vars

----------------------------------------------------------------------------
(* DNSOutagePreventionSystem._assess_cascade_risk                          *)
(* (src/outage_prevention_system.py), a function of the service and of the *)
(* number of its failed checks. Scores are tenths: 0.3, 0.4, 0.5, 0.8 and  *)
(* the cap 1.0 of the source are 3, 4, 5, 8 and 10.                        *)

\* self.service_dependencies
service_dependencies ==
    [ dynamodb |-> << "lambda", "ecs", "ec2", "rds" >>,
      rds      |-> << "lambda", "ecs", "ec2" >>,
      lambda   |-> << "dynamodb", "rds", "s3" >>,
      ecs      |-> << "dynamodb", "rds", "elbv2" >>,
      ec2      |-> << "dynamodb", "rds" >>,
      elbv2    |-> << "ec2", "ecs" >> ]

\* the services that are checked (critical_services) or have dependents
RiskServices == { "dynamodb", "rds", "lambda", "ecs", "ec2", "elbv2", "s3" }

\* self.service_dependencies.get(service, [])
dependent_services(service) ==
    IF service \in DOMAIN service_dependencies
    THEN service_dependencies[service] ELSE << >>

Min(a, b) == IF a <= b THEN a ELSE b

\* a risk score without the cap
risk_score_unclipped(service, failed_checks) ==
    LET failure_score == failed_checks * 3
        dependency_score == Len(dependent_services(service)) * 4
        criticality_score == IF service = "dynamodb" THEN 8 ELSE 5
    IN  failure_score + dependency_score + criticality_score

\* risk_score = min(1.0, failure_score + dependency_score + criticality_score)
risk_score(service, failed_checks) ==
    LET failure_score == failed_checks * 3
        dependency_score == Len(dependent_services(service)) * 4
        criticality_score == IF service = "dynamodb" THEN 8 ELSE 5
    IN  Min(10, failure_score + dependency_score + criticality_score)

\* the assessments start with any service, region and number of failed checks
InitRisk ==
    /\ secondary_regions = default_secondary_regions
    /\ region_health =
         [ r \in Regions |->
             RegionHealth(IF r = primary_region THEN ACTIVE ELSE STANDBY,
                          100, 0, 0, 0) ]
    /\ current_active_region = primary_region
    /\ failover_events = << >>
    /\ failover_in_progress = FALSE
    /\ is_monitoring = FALSE
    /\ consecutive_failures = [ r \in Regions |-> 0 ]
    /\ pc = [ t \in Threads |-> "idle" ]
    /\ loop = IdleLoop
    /\ frame = [ t \in Threads |-> IdleFrame ]
    /\ \E service \in RiskServices, region \in Regions,
          failed_checks \in 0..MaxFailedChecks :
         obs = [ IdleObs EXCEPT !.risk =
                   [ NoRisk EXCEPT !.service = service, !.region = region,
                                   !.failed_checks = failed_checks ] ]

\* cascade_risk = self._assess_cascade_risk(service, region, failed_checks)
assess_cascade_risk ==
    /\ ~obs.risk.assessed
    /\ obs' = [ obs EXCEPT !.risk.assessed = TRUE,
                           !.risk.risk_score =
                               risk_score(obs.risk.service, obs.risk.failed_checks) ]
    /\ UNCHANGED << secondary_regions, region_health, current_active_region,
                    failover_events, failover_in_progress, is_monitoring,
                    consecutive_failures, pc, loop, frame >>

\* the score above which analyze_dns_failures reports a cascade risk, in tenths
cascade_alert_threshold == 7

\* a report that is made only when a check of the service has failed
cascade_risk_alert_if_failed ==
    /\ obs.risk.assessed
    /\ ~obs.risk.analyzed
    /\ obs' = [ obs EXCEPT !.risk.analyzed = TRUE,
                           !.risk.alerted =
                               /\ obs.risk.failed_checks > 0
                               /\ obs.risk.risk_score > cascade_alert_threshold ]
    /\ UNCHANGED << secondary_regions, region_health, current_active_region,
                    failover_events, failover_in_progress, is_monitoring,
                    consecutive_failures, pc, loop, frame >>

\* if cascade_risk.risk_score > 0.7: ... alerts.append(alert)
cascade_risk_alert ==
    /\ obs.risk.assessed
    /\ ~obs.risk.analyzed
    /\ obs' = [ obs EXCEPT !.risk.analyzed = TRUE,
                           !.risk.alerted =
                               obs.risk.risk_score > cascade_alert_threshold ]
    /\ UNCHANGED << secondary_regions, region_health, current_active_region,
                    failover_events, failover_in_progress, is_monitoring,
                    consecutive_failures, pc, loop, frame >>

\* the next cycle finds one more failed check of the service
OneMoreFailedCheck ==
    /\ obs.risk.analyzed
    /\ obs.risk.failed_checks < MaxFailedChecks
    /\ obs' = [ obs EXCEPT !.risk.failed_checks = @ + 1,
                           !.risk.compared = TRUE,
                           !.risk.previous = obs.risk.risk_score,
                           !.risk.assessed = FALSE,
                           !.risk.analyzed = FALSE,
                           !.risk.alerted = FALSE,
                           !.risk.risk_score = 0 ]
    /\ UNCHANGED << secondary_regions, region_health, current_active_region,
                    failover_events, failover_in_progress, is_monitoring,
                    consecutive_failures, pc, loop, frame >>

NextRisk == assess_cascade_risk \/ cascade_risk_alert \/ OneMoreFailedCheck

SpecRisk == InitRisk /\ [][NextRisk]_vars

----------------------------------------------------------------------------
(* perform_failover in which a statement may raise.  An exception inside a *)
(* helper is caught by the helper's own except clause, which logs and      *)
(* returns False; when that log call raises too, the exception leaves the  *)
(* helper.  An exception that reaches the try block of perform_failover    *)
(* goes to "except Exception" (lines 411-413), which logs and returns      *)
(* False, and the finally clause runs; when that log call raises, the      *)
(* exception reaches the caller after the finally clause.  An exception of *)
(* lines 364-367, after the flag is set and before the try block, leaves   *)
(* the call with nothing caught.                                           *)

\* the positions inside _rollback_failover at which a statement can raise:
\* the log call of line 594 (at the branch, when the steps have failed), the
\* two collaborator calls, and lines 606-607
RollbackPositions == { "pf_branch", "rb_dns", "rb_cloudfront", "rb_commit_status" }

\* the positions inside _verify_target_region at which a statement can raise
VerifyPositions == { "pf_verify", "pf_verify_store" }

\* the positions inside the try block of perform_failover at which a
\* statement can raise: the four steps, the log call of line 392 and the
\* rollback, lines 387-390 and 396-407
TryPositions ==
    { "pf_dns", "pf_cloudfront", "pf_scale", "pf_commit_to", "pf_commit_from",
      "pf_event" } \cup VerifyPositions \cup RollbackPositions

\* the frame of thread t once the step at its position has made its
\* collaborator call
CallMade(t) ==
    LET f == frame[t] IN
    CASE pc[t] = "pf_dns" ->
           [ f EXCEPT !.calls = Append(@, << "dns", f.from_region, f.to_region >>) ]
      [] pc[t] = "pf_cloudfront" ->
           [ f EXCEPT !.calls = Append(@, << "cloudfront", f.from_region,
                                             f.to_region >>) ]
      [] pc[t] = "pf_scale" ->
           [ f EXCEPT !.calls = Append(@, << "scale", f.to_region >>) ]
      [] pc[t] = "pf_verify" ->
           [ f EXCEPT !.calls = IF f.polls = 0
                                THEN Append(@, << "verify", f.to_region >>)
                                ELSE @ ]
      [] pc[t] = "rb_dns" ->
           [ f EXCEPT !.calls = Append(@, << "dns", f.to_region, f.from_region >>) ]
      [] pc[t] = "rb_cloudfront" ->
           [ f EXCEPT !.calls = Append(@, << "cloudfront", f.to_region,
                                             f.from_region >>) ]
      [] OTHER -> f

\* the frame of thread t when a statement of the step at its position has
\* raised: the collaborator has been called, no record is waiting, success is
\* false, and so is rollback_success when the exception is one of
\* _rollback_failover (lines 613-615 return False, or line 393 assigns nothing)
FrameRaised(t) ==
    [ CallMade(t) EXCEPT
        !.success = FALSE,
        !.pending = NoRecord,
        !.rollback_success = IF pc[t] \in RollbackPositions THEN FALSE ELSE @ ]

\* the records a poll of the verification can have stored when a statement
\* of it raises: the one of the except branch of check_region_health, and,
\* once the record of the try block is built, that record
PollRecords(t) ==
    IF pc[t] = "pf_verify_store"
    THEN { frame[t].pending, failed_health }
    ELSE { failed_health }

\* a statement of the step at one of the given positions raises and the
\* exception takes thread t to position dest.  The collaborator of the step
\* has been called; a poll of the verification may have stored a record,
\* and line 606 may have restored the status of the original region.
Raises(t, positions, dest) ==
    /\ pc[t] \in positions
    /\ obs.raised < MaxRaised
    /\ pc[t] = "pf_branch" =>
          ~AllSteps(frame[t].dns_success, frame[t].cloudfront_success,
                    frame[t].scaling_success, frame[t].verification_success)
    /\ \/ /\ region_health' = region_health
          /\ obs' = [ obs EXCEPT !.raised = @ + 1 ]
          /\ frame' = [ frame EXCEPT ![t] = FrameRaised(t) ]
       \/ /\ pc[t] \in VerifyPositions
          /\ frame[t].polls < MaxPolls
          /\ \E h \in PollRecords(t) :
               /\ region_health' = [ region_health EXCEPT ![frame[t].to_region] = h ]
               /\ obs' = [ obs EXCEPT !.checked[frame[t].to_region] = h.status,
                                      !.raised = @ + 1 ]
          /\ frame' = [ frame EXCEPT ![t] = [ FrameRaised(t) EXCEPT !.polls = @ + 1 ] ]
       \/ /\ pc[t] = "rb_commit_status"
          /\ region_health' =
               [ region_health EXCEPT ![frame[t].from_region].status = ACTIVE ]
          /\ obs' = [ obs EXCEPT !.raised = @ + 1 ]
          /\ frame' = [ frame EXCEPT ![t] = FrameRaised(t) ]
    /\ pc' = [ pc EXCEPT ![t] = dest ]
    /\ UNCHANGED << secondary_regions, current_active_region, failover_events,
                    failover_in_progress, is_monitoring, consecutive_failures,
                    loop >>

\* except Exception as e: logger.error(...); return False
pf_except(t) == Raises(t, TryPositions, "pf_finally")

\* except Exception as e: logger.error(...), and the log call of line 412
\* raises: the finally clause runs with the exception in flight
pf_except_raises(t) == Raises(t, TryPositions, "pf_unwind")

\* a statement before the try block raises and the exception reaches the
\* caller: the log call of line 360, which runs when the flag is set, or a
\* statement of lines 364-367, when the flag has been set by line 363
pf_raises_before_try(t) ==
    /\ pc[t] \in { "pf_guard", "pf_set" }
    /\ pc[t] = "pf_guard" => failover_in_progress
    /\ obs.raised < MaxRaised
    /\ failover_in_progress' = TRUE
    /\ pc' = [ pc EXCEPT ![t] = "pf_raised" ]
    /\ obs' = [ obs EXCEPT !.raised = @ + 1 ]
    /\ UNCHANGED << secondary_regions, region_health, current_active_region,
                    failover_events, is_monitoring, consecutive_failures,
                    loop, frame >>

\* a poll of the verification in which a statement of the try block of
\* check_region_health raises: the except branch stores and returns
\* failed_health, which is not ready, and the verification waits on
pf_verify_check_except(t) ==
    /\ pc[t] \in VerifyPositions
    /\ obs.raised < MaxRaised
    /\ frame[t].polls < MaxPolls
    /\ region_health' = [ region_health EXCEPT ![frame[t].to_region] = failed_health ]
    /\ obs' = [ obs EXCEPT !.checked[frame[t].to_region] = failed_health.status,
                           !.raised = @ + 1 ]
    /\ frame' = [ frame EXCEPT ![t] = [ CallMade(t) EXCEPT
                                          !.verification_success = FALSE,
                                          !.pending = NoRecord,
                                          !.polls = @ + 1 ] ]
    /\ pc' = [ pc EXCEPT ![t] = "pf_verify" ]
    /\ UNCHANGED << secondary_regions, current_active_region, failover_events,
                    failover_in_progress, is_monitoring, consecutive_failures,
                    loop >>

\* a statement of _verify_target_region raises, before a poll or after the
\* poll has stored its record: "except Exception" of lines 587-589 returns
\* False
pf_verify_raises(t) == Raises(t, VerifyPositions, "pf_branch")

\* a statement of _rollback_failover raises: "except Exception" of lines
\* 613-615 returns False
rb_except(t) == Raises(t, RollbackPositions, "pf_event")

\* the steps of a call of perform_failover by thread t that follow an exception
perform_failover_raises(t) ==
    \/ pf_except(t)
    \/ pf_except_raises(t)
    \/ pf_verify_check_except(t)
    \/ pf_verify_raises(t)
    \/ rb_except(t)

(* One call of perform_failover in which a statement may raise.            *)

NextTerm ==
    \/ ManualCall("manual")
    \/ perform_failover("manual", ProbeSample, Latencies)
    \/ perform_failover_raises("manual")
    \/ pf_raises_before_try("manual")
    \/ CallerDone("manual")

SpecTerm == Init /\ [][NextTerm]_vars

\* the calling thread keeps running: a call that can take its next step
\* takes it; an exception may or may not occur
SpecTermFair ==
    SpecTerm /\ WF_vars(perform_failover("manual", ProbeSample, Latencies))

----------------------------------------------------------------------------
(* The monitor loop with statements that raise, stopped and started again. *)
(* Every probe answers healthy and fast: a region is unhealthy, and a      *)
(* failover is attempted, only after a check in which a statement raised.  *)

NextFault ==
    \/ start_monitoring
    \/ start_monitoring_raises
    \/ stop_monitoring
    \/ monitor_loop(HealthyProbe, FastLatency)
    \/ perform_failover_raises("monitor")
    \/ CheckStepExcept
    \/ CheckStepRaises(HealthyProbe, FastLatency)
    \/ TickRaises
    \/ Backoff
    \/ BackoffRaises

SpecFault == Init /\ [][NextFault]_vars

----------------------------------------------------------------------------
(* Properties.                                                             *)

ActiveRegions == { r \in Regions : region_health[r].status = ACTIVE }

\* C1: under the monitor loop, with any probe and collaborator outcomes, at
\* most one region has status ACTIVE in every reachable state, the states
\* between the assignments of the commit and of the rollback included.
C1_AtMostOneActive == Cardinality(ActiveRegions) <= 1

\* the commit has made the target ACTIVE and has not yet marked the source
C1_Witness ==
    /\ pc["monitor"] = "pf_commit_from"
    /\ region_health[frame["monitor"].to_region].status = ACTIVE
    /\ current_active_region = frame["monitor"].to_region

\* C2: at most one thread is between setting and clearing failover_in_progress,
\* for every interleaving of two callers of perform_failover.
C2_OneOrchestration ==
    Cardinality({ t \in Threads : pc[t] \in Orchestrating }) <= 1

\* the monitor's call of perform_failover has returned
Returned == pc["monitor"] = "pf_return"

LastEvent == failover_events[Len(failover_events)]

\* C3: after an attempt whose rollback failed too, the source and the target
\* region both have status FAILED, and the monitor loop starts no further
\* attempt (nothing in the model resets the manager).
C3_RollbackFailureSuspends ==
    /\ (Returned /\ ~frame["monitor"].success /\ ~frame["monitor"].rollback_success)
          => /\ region_health[frame["monitor"].from_region].status = FAILED
             /\ region_health[frame["monitor"].to_region].status = FAILED
    /\ obs.rollback_failed
          => pc["monitor"] \notin ({ "pf_guard", "pf_set" } \cup Orchestrating)

\* C4 as stated: after a failed attempt with a successful rollback,
\* current_active_region and the source region's status are what they were
\* immediately before the call, and the event says success = false,
\* rollback_performed = true.
C4_StatusAsBeforeCall ==
    (Returned /\ ~frame["monitor"].success /\ frame["monitor"].rollback_success)
       => /\ current_active_region = frame["monitor"].pre_active
          /\ region_health[frame["monitor"].from_region].status
                = frame["monitor"].pre_status
          /\ ~LastEvent.success
          /\ LastEvent.rollback_performed

\* C4 (amended): after a failed attempt with a successful rollback,
\* current_active_region is the source region, as before the call; the source
\* region's status is ACTIVE, while immediately before the call it was
\* FAILING_OVER or FAILED, as the tick's health check had left it; and the
\* event appended by the attempt says success = false, rollback_performed = true.
C4_RolledBackToActive ==
    (Returned /\ ~frame["monitor"].success /\ frame["monitor"].rollback_success)
       => /\ current_active_region = frame["monitor"].from_region
          /\ current_active_region = frame["monitor"].pre_active
          /\ region_health[frame["monitor"].from_region].status = ACTIVE
          /\ frame["monitor"].pre_status \in { FAILING_OVER, FAILED }
          /\ Len(failover_events) = obs.tick_events + 1
          /\ LastEvent.from_region = frame["monitor"].from_region
          /\ LastEvent.to_region = frame["monitor"].to_region
          /\ ~LastEvent.success
          /\ LastEvent.rollback_performed

\* an attempt that failed in a step and was rolled back has returned
C4_Witness ==
    /\ Returned
    /\ ~frame["monitor"].success
    /\ frame["monitor"].rollback_success
    /\ frame["monitor"].pre_status = FAILING_OVER

\* C5: perform_failover returns success exactly when all four steps returned
\* true; and when it returns success, current_active_region = to, the status
\* of to is ACTIVE, the status of from is FAILED, and the attempt has appended
\* exactly one event, with success = true and rollback_performed = false.
C5_SuccessIffAllSteps ==
    Returned =>
       LET f == frame["monitor"] IN
       /\ f.success <=> ( f.dns_success /\ f.cloudfront_success /\
                          f.scaling_success /\ f.verification_success )
       /\ f.success =>
            /\ current_active_region = f.to_region
            /\ region_health[f.to_region].status = ACTIVE
            /\ region_health[f.from_region].status = FAILED
            /\ Len(failover_events) = obs.tick_events + 1
            /\ LastEvent = [ from_region |-> f.from_region, to_region |-> f.to_region,
                             success |-> TRUE, rollback_performed |-> FALSE ]

\* a successful attempt has returned
C5_Witness ==
    /\ Returned
    /\ frame["monitor"].success
    /\ frame["monitor"].to_region = "eu-west-1"

\* the calls of an attempt from a to b that ran its four steps and rolled back
RolledBackCalls(a, b) ==
    << << "dns", a, b >>, << "cloudfront", a, b >>, << "scale", b >>,
       << "verify", b >>, << "dns", b, a >>, << "cloudfront", b, a >> >>

\* C6: when the scale-up fails while the traffic switch, the CDN update and
\* the verification succeed, the rollback runs; it re-issues the traffic and
\* CDN switches from to back to from and makes no other collaborator call; and
\* current_active_region is the original source region in the end.
C6_ScaleFailureRollsBack ==
    LET f == frame["monitor"] IN
    ( Returned /\ f.dns_success /\ f.cloudfront_success /\ ~f.scaling_success
               /\ f.verification_success )
       => /\ f.calls = RolledBackCalls(f.from_region, f.to_region)
          /\ current_active_region = f.from_region
          /\ current_active_region = f.pre_active

\* such an attempt has returned, its rollback having succeeded
C6_Witness ==
    LET f == frame["monitor"] IN
    /\ Returned
    /\ f.dns_success /\ f.cloudfront_success /\ ~f.scaling_success
    /\ f.verification_success
    /\ f.rollback_success

\* the regions of the whole fleet that pass the filter of the selection
FleetCandidates == { r \in Regions : Eligible(r) }

\* C7: when the monitor selects a target, the region returned is one of the
\* regions of the whole fleet with status STANDBY or ACTIVE and health score
\* >= health_threshold, of maximal health score and, among those, of minimal
\* response time; and None is returned only when no region of the fleet
\* passes that filter.
C7_BestOfFleet ==
    pc["monitor"] = "select" =>
       LET best == select_best_failover_region IN
       /\ best = None => FleetCandidates = { }
       /\ best # None =>
            /\ best \in FleetCandidates
            /\ \A r \in FleetCandidates :
                 \/ region_health[best].health_score > region_health[r].health_score
                 \/ /\ region_health[best].health_score = region_health[r].health_score
                    /\ region_health[best].response_time <= region_health[r].response_time

\* the regions of the candidate list of the selection
Candidates == { available_regions[i] : i \in 1..Len(available_regions) }

\* C8: when the monitor selects a target and two regions of the candidate list
\* have the same health score, the one with the strictly higher response time
\* is not selected, whatever the order of the configured region list; so with
\* these two as the only candidates the one with the lower response time is.
C8_TieBreakByLatency ==
    pc["monitor"] = "select" =>
       \A a, b \in Candidates :
          ( /\ region_health[a].health_score = region_health[b].health_score
            /\ region_health[a].response_time < region_health[b].response_time )
          => /\ select_best_failover_region # b
             /\ Candidates = { a, b } => select_best_failover_region = a

\* the two standbys tie on health and the one configured last is the faster
C8_Witness ==
    /\ pc["monitor"] = "select"
    /\ Len(available_regions) = 2
    /\ region_health[secondary_regions[1]].health_score
          = region_health[secondary_regions[2]].health_score
    /\ region_health[secondary_regions[2]].response_time
          < region_health[secondary_regions[1]].response_time
    /\ secondary_regions[2] = "us-west-2"
    /\ select_best_failover_region = "us-west-2"

\* the active region's score and every secondary region's score are below
\* health_threshold
NoHealthyTarget ==
    /\ region_health[current_active_region].health_score < health_threshold
    /\ \A i \in 1..Len(secondary_regions) :
         region_health[secondary_regions[i]].health_score < health_threshold

\* C9: in a tick whose checks leave the active region and every secondary
\* region below health_threshold, the decision goes to the selection and the
\* selection goes straight to the inter-tick sleep: no orchestration is
\* started, current_active_region and failover_events are unchanged and
\* failover_in_progress is false; the loop then goes on to its next tick.
C9_NoTargetNoOrchestration ==
    [][ /\ ( pc["monitor"] = "decide" /\ NoHealthyTarget )
           => ( pc'["monitor"] = "select" /\ NoHealthyTarget' )
        /\ ( pc["monitor"] = "select" /\ NoHealthyTarget )
           => /\ pc'["monitor"] = "sleep"
              /\ current_active_region' = current_active_region
              /\ current_active_region' = obs.tick_active
              /\ failover_events' = failover_events
              /\ Len(failover_events') = obs.tick_events
              /\ ~failover_in_progress'
        /\ ( pc["monitor"] = "sleep" /\ is_monitoring )
           => ( pc'["monitor"] = "while" /\ is_monitoring' ) ]_vars

\* such a tick has reached its sleep
C9_Witness ==
    /\ pc["monitor"] = "sleep"
    /\ obs.outcome = "no_target"
    /\ NoHealthyTarget
    /\ region_health[current_active_region].status = FAILING_OVER

\* C10 as stated: when a tick finds the active region unhealthy and the
\* candidate list empty and the previous tick had found the same, it emits no
\* report.
C10_ReportedOncePerOnset ==
    ( pc["monitor"] = "sleep" /\ obs.outcome = "no_target" /\ obs.prior_no_target )
       => obs.reports = 0

\* C10 (amended): the condition is reported in every tick in which it holds:
\* a tick that ends with the active region unhealthy and the candidate list
\* empty, without an orchestration, has emitted the report, also when the
\* previous tick had found the same and had reported it.
C10_ReportedEveryTick ==
    ( /\ pc["monitor"] = "sleep"
      /\ obs.outcome # "failover"
      /\ region_health[current_active_region].health_score < health_threshold
      /\ available_regions = << >> )
       => obs.reports = 1

\* the second of two consecutive ticks without a target has reported again
C10_Witness ==
    /\ pc["monitor"] = "sleep"
    /\ obs.outcome = "no_target"
    /\ obs.prior_no_target
    /\ obs.reports = 1

\* C11: one incident of the active region (consecutive ticks that find it below
\* health_threshold) sees one failover attempt: the monitor does not call
\* perform_failover for a source region in the tick that follows a tick in
\* which it already called it for that region.
C11_OneAttemptPerIncident ==
    ~ ( /\ pc["monitor"] = "pf_guard"
        /\ obs.prior_failover
        /\ LastEvent.from_region = frame["monitor"].from_region )

\* C12: after a tick's health check the monitor triggers a failover of the
\* active region whenever its counter >= consecutive_failures_threshold, or its
\* health score < health_threshold, or its response time >
\* response_time_threshold: a tick that ends without a trigger had none of the
\* three conditions.
C12_TriggersOnAnyCondition ==
    (pc["monitor"] = "sleep" /\ obs.outcome = "healthy") =>
        ~ ( \/ consecutive_failures[current_active_region] >= consecutive_failures_threshold
            \/ region_health[current_active_region].health_score < health_threshold
            \/ region_health[current_active_region].response_time > response_time_threshold )

\* C13: in every tick, the check of a region sets that region's
\* consecutive-failure counter to 0 when the check is healthy, as
\* check_region_health judges it (health score at least health_threshold and
\* response time at most response_time_threshold), and to its previous value
\* plus exactly 1 otherwise, and leaves the counters of the other regions alone.
C13_CounterFollowsCheck ==
    [][ pc["monitor"] = "for" =>
          LET region == all_regions[loop.idx]
              unhealthy ==
                 \/ region_health'[region].health_score < health_threshold
                 \/ region_health'[region].response_time > response_time_threshold
          IN
          /\ ~unhealthy => consecutive_failures'[region] = 0
          /\ unhealthy =>
                 consecutive_failures'[region] = consecutive_failures[region] + 1
          /\ \A other \in Regions \ {region} :
                 consecutive_failures'[other] = consecutive_failures[other] ]_vars

\* C14 as stated: the counter of a region decreases only in the step that
\* checks that region and finds it healthy.
C14_DecreasesOnlyOnHealthyCheck ==
    [][ \A region \in Regions :
          consecutive_failures'[region] < consecutive_failures[region] =>
              /\ pc["monitor"] = "for"
              /\ all_regions[loop.idx] = region
              /\ region_health'[region].health_score >= health_threshold ]_vars

\* C14, amended: the counter of a region decreases only to 0, and only by a
\* healthy check of that region, by the return of a successful failover away
\* from that region, or by starting the monitor again; sleeping and stopping
\* the monitor leave every counter alone.
C14_DecreasesOnlyOnCheckFailoverOrRestart ==
    [][ /\ \A region \in Regions :
             consecutive_failures'[region] < consecutive_failures[region] =>
                 /\ consecutive_failures'[region] = 0
                 /\ \/ /\ pc["monitor"] = "for"
                       /\ all_regions[loop.idx] = region
                       /\ region_health'[region].health_score >= health_threshold
                    \/ /\ pc["monitor"] = "pf_return"
                       /\ frame["monitor"].success
                       /\ loop.active_region = region
                    \/ /\ pc["monitor"] = "exited"
                       /\ pc'["monitor"] = "while"
        /\ (pc["monitor"] = "sleep" \/ (is_monitoring /\ ~is_monitoring')) =>
               consecutive_failures' = consecutive_failures ]_vars

\* a successful failover has returned to the monitor: the source region failed
\* this tick's check and its counter is 0, while another region keeps its count
C14_Witness ==
    /\ pc["monitor"] = "sleep"
    /\ loop.success
    /\ region_health[loop.active_region].health_score < health_threshold
    /\ consecutive_failures[loop.active_region] = 0
    /\ \E region \in Regions : consecutive_failures[region] > 0

\* C15 as stated: the stored log failover_events never holds more than
\* recent_events_limit events.
C15_StoredLogBounded == Len(failover_events) <= recent_events_limit

\* C16: an attempt that has passed the in-progress guard reaches its end only
\* through the step that appends its FailoverEvent, that step appends exactly
\* one event (with the attempt's regions and result, whether it succeeded,
\* rolled back or failed to roll back), and no other step changes the log: the
\* events already appended stay as they were.
C16_OneEventPerAttempt ==
    [][ LET t == "operator" IN
        /\ failover_events' # failover_events =>
              /\ pc[t] = "pf_event"
              /\ pc'[t] = "pf_finally"
              /\ Len(failover_events') = Len(failover_events) + 1
              /\ SubSeq(failover_events', 1, Len(failover_events)) = failover_events
              /\ LET event == failover_events'[Len(failover_events')] IN
                 /\ event.from_region = frame[t].from_region
                 /\ event.to_region = frame[t].to_region
                 /\ event.success = frame[t].success
        /\ (pc[t] = "pf_event" /\ pc'[t] # "pf_event") =>
              Len(failover_events') = Len(failover_events) + 1
        /\ (pc'[t] = "pf_finally" /\ pc[t] # "pf_finally") => pc[t] = "pf_event"
        /\ (pc'[t] = "pf_return" /\ pc[t] \in Orchestrating) => pc[t] = "pf_finally"
      ]_vars

\* three attempts have ended: one succeeded, one failed, and the last one
\* failed and could not be rolled back; each left its event
C16_Witness ==
    /\ pc["operator"] = "pf_return"
    /\ Len(failover_events) = 3
    /\ failover_events[1].success
    /\ ~failover_events[2].success
    /\ ~frame["operator"].success
    /\ ~frame["operator"].rollback_success
    /\ ~failover_events[3].success

\* C17: a call of perform_failover that finds failover_in_progress true
\* returns false at once: it makes none of the collaborator calls, appends no
\* event, changes no region's health record nor current_active_region, and
\* leaves failover_in_progress true; once it has returned, the caller holds
\* nothing of it that would run later.
C17_SkippedCallChangesNothing ==
    [][ \A t \in Callers :
          /\ (pc[t] = "pf_guard" /\ failover_in_progress /\ pc'[t] # "pf_guard") =>
                /\ pc'[t] = "pf_return"
                /\ ~frame'[t].success
                /\ frame'[t].calls = << >>
                /\ failover_events' = failover_events
                /\ region_health' = region_health
                /\ current_active_region' = current_active_region
                /\ failover_in_progress'
          /\ (pc[t] = "pf_return" /\ pc'[t] # "pf_return") =>
                /\ pc'[t] = "done"
                /\ frame'[t] = IdleFrame
          /\ pc[t] = "done" => pc'[t] = "done" ]_vars

\* a call has been skipped while the other caller's orchestration is in flight
C17_Witness ==
    \E t \in Callers, u \in Callers :
        /\ t # u
        /\ pc[t] = "pf_return"
        /\ frame[t].calls = << >>
        /\ ~frame[t].success
        /\ pc[u] \in Orchestrating
        /\ failover_in_progress

\* the status that the dict of get_status gives for a region
ReportedStatus(region) ==
    LET items == obs.report.region_health
        i == CHOOSE i \in 1..Len(items) : items[i][1] = region
    IN  items[i][2]

\* C18: the dict that get_status returns is a consistent snapshot, whatever a
\* concurrent orchestration is doing: the region it gives as
\* current_active_region has status ACTIVE in it, and no other region has.
C18_ConsistentSnapshot ==
    pc["operator"] = "gs_return" =>
        /\ ReportedStatus(obs.report.current_active_region) = ACTIVE
        /\ \A region \in Regions \ { obs.report.current_active_region } :
               ReportedStatus(region) # ACTIVE

\* a step that takes the region from FAILING_OVER to FAILED
BecomesFailed(region) ==
    /\ region_health[region].status = FAILING_OVER
    /\ region_health'[region].status = FAILED

\* C19 as stated: a region goes from FAILING_OVER to FAILED only inside an
\* orchestration: in the commit of a successful switch away from it, or in the
\* rollback and the end of an attempt that failed; never in a health check.
C19_FailedOnlyByOrchestration ==
    [][ \A region \in Regions :
          BecomesFailed(region) =>
              \/ /\ pc["monitor"] = "pf_commit_from"
                 /\ frame["monitor"].from_region = region
              \/ /\ pc["monitor"] \in { "rb_dns", "rb_cloudfront", "rb_commit_active",
                                        "rb_commit_status", "pf_event", "pf_finally" }
                 /\ ~frame["monitor"].success ]_vars

\* C19, amended: a region goes from FAILING_OVER to FAILED only by a health
\* check of that region that finds it unhealthy (in the monitor's tick or in
\* the verification of a target), or, for the source region, by the commit of
\* a successful switch away from it.
C19_FailedByCheckOrSwitch ==
    [][ \A region \in Regions :
          BecomesFailed(region) =>
              \/ /\ \/ pc["monitor"] = "for" /\ all_regions[loop.idx] = region
                    \/ pc["monitor"] = "pf_verify_store" /\ frame["monitor"].to_region = region
                 /\ \/ region_health'[region].health_score < health_threshold
                    \/ region_health'[region].response_time > response_time_threshold
              \/ /\ pc["monitor"] = "pf_commit_from"
                 /\ frame["monitor"].from_region = region
                 /\ frame["monitor"].success ]_vars

\* the primary region, ACTIVE at first, is FAILED although no orchestration
\* has run: two health checks took it there
C19_Witness ==
    /\ pc["monitor"] = "sleep"
    /\ current_active_region = primary_region
    /\ region_health[primary_region].status = FAILED
    /\ failover_events = << >>

\* no orchestration is in flight and no region is FAILING_OVER
SteadyState ==
    /\ ~failover_in_progress
    /\ \A region \in Regions : region_health[region].status # FAILING_OVER

\* C20 as stated: in a steady state exactly one region has status ACTIVE.
C20_ExactlyOneActive == SteadyState => Cardinality(ActiveRegions) = 1

\* C20, amended: in a steady state either current_active_region is the one
\* region with status ACTIVE, or no region has status ACTIVE and
\* current_active_region is FAILED.
C20_ActiveOrFailed ==
    SteadyState =>
        \/ ActiveRegions = { current_active_region }
        \/ /\ ActiveRegions = { }
           /\ region_health[current_active_region].status = FAILED

\* a tick has ended without a target for the FAILED active region; an earlier
\* tick ended with the traffic moved to a region that is ACTIVE
C20_Witness ==
    /\ SteadyState
    /\ pc["monitor"] = "sleep"
    /\ obs.outcome = "no_target"
    /\ ActiveRegions = { }
    /\ region_health[current_active_region].status = FAILED
    /\ failover_events # << >>
    /\ failover_events[1].success

\* the collaborator calls of the four steps of an attempt from a to b
FourSteps(a, b) ==
    << << "dns", a, b >>, << "cloudfront", a, b >>, << "scale", b >>,
       << "verify", b >> >>

\* the positions of an attempt after its fourth step
AfterSteps ==
    { "pf_branch", "pf_commit_active", "pf_commit_to", "pf_commit_from",
      "rb_dns", "rb_cloudfront", "rb_commit_active", "rb_commit_status",
      "pf_event", "pf_finally" }

\* C21: an attempt makes its calls in the order traffic redirect, CDN origin
\* update, scale-up, verification; a step that fails gives a false result and
\* the steps after it still run, so that every attempt that is past its steps
\* (up to the clearing of failover_in_progress) has made exactly these four
\* calls first.
C21_StepsInOrder ==
    LET f == frame["monitor"] IN
    /\ pc["monitor"] \in { "pf_cloudfront", "pf_scale", "pf_verify", "pf_verify_store" } =>
          /\ Len(f.calls) <= 4
          /\ f.calls = SubSeq(FourSteps(f.from_region, f.to_region), 1, Len(f.calls))
    /\ pc["monitor"] = "pf_cloudfront" => Len(f.calls) = 1
    /\ pc["monitor"] = "pf_scale" => Len(f.calls) = 2
    /\ pc["monitor"] \in AfterSteps =>
          /\ Len(f.calls) >= 4
          /\ SubSeq(f.calls, 1, 4) = FourSteps(f.from_region, f.to_region)

\* the traffic redirect of an attempt failed, and the other three steps ran
C21_Witness ==
    LET f == frame["monitor"] IN
    /\ pc["monitor"] = "pf_branch"
    /\ ~f.dns_success
    /\ f.cloudfront_success /\ f.scaling_success /\ f.verification_success
    /\ f.calls = FourSteps(f.from_region, f.to_region)

\* readiness with a latency that may equal the threshold
ReadyAtThreshold(h) ==
    /\ h.health_score >= health_threshold
    /\ h.response_time <= response_time_threshold

\* C22: the verification has succeeded exactly when a poll saw the target with
\* health >= health_threshold and latency <= response_time_threshold: while it
\* has not succeeded, the poll just made did not see that, and when it has,
\* the last poll did.
C22_VerifiedIffPollReady ==
    LET f == frame["manual"] IN
    (pc["manual"] \in { "pf_verify", "pf_branch" } /\ f.polls > 0) =>
        (f.verification_success <=> ReadyAtThreshold(region_health[f.to_region]))

\* C23: an exception raised in a tick does not end the monitor loop: the
\* except clause leads to the loop test, the loop test starts another tick
\* while monitoring has not been stopped, the thread leaves its loop from the
\* loop test only, when monitoring has been stopped, and raising and backing
\* off do not change is_monitoring.
C23_LoopSurvivesBadTick ==
    [][ /\ (pc["monitor"] = "backoff" /\ pc'["monitor"] # "backoff") =>
               pc'["monitor"] = "while"
        /\ (pc["monitor"] = "while" /\ is_monitoring /\ pc'["monitor"] # "while") =>
               pc'["monitor"] = "for"
        /\ ( /\ pc'["monitor"] \in { "exited", "died" }
             /\ pc'["monitor"] # pc["monitor"] ) =>
               (pc["monitor"] = "while" /\ ~is_monitoring)
        /\ ( /\ pc'["monitor"] # pc["monitor"]
             /\ "backoff" \in { pc["monitor"], pc'["monitor"] } ) =>
               is_monitoring' = is_monitoring ]_vars

\* C24: stop_monitoring changes is_monitoring only; the monitor reads it in
\* its loop test only, so an attempt in flight when monitoring is stopped goes
\* on through its remaining steps, appends its event and clears
\* failover_in_progress, after which the loop test starts no new tick and the
\* loop exits.
C24_StopAtTickBoundary ==
    /\ [][ /\ (is_monitoring /\ ~is_monitoring') =>
                 UNCHANGED << pc, frame, loop, failover_in_progress,
                              failover_events, region_health,
                              current_active_region >>
           /\ (pc'["monitor"] = "exited" /\ pc["monitor"] # "exited") =>
                 /\ pc["monitor"] = "while"
                 /\ ~is_monitoring
                 /\ ~failover_in_progress
           /\ (pc["monitor"] = "while" /\ ~is_monitoring
                  /\ pc'["monitor"] # "while") => pc'["monitor"] = "exited"
           /\ (pc["monitor"] \in Orchestrating /\ pc'["monitor"] \notin Orchestrating) =>
                 /\ pc["monitor"] = "pf_finally"
                 /\ ~failover_in_progress'
                 /\ Len(failover_events) = obs.tick_events + 1 ]_vars
    /\ (pc["monitor"] \in Orchestrating /\ ~is_monitoring) ~> (pc["monitor"] = "exited")

\* monitoring was stopped before the switch of an attempt was committed, and
\* the attempt has committed it and appended its event
C24_Witness ==
    /\ ~is_monitoring
    /\ pc["monitor"] = "pf_finally"
    /\ frame["monitor"].success
    /\ current_active_region = frame["monitor"].to_region
    /\ Len(failover_events) = obs.tick_events + 1

\* the threads that have passed the test of their monitor loop and are in a
\* tick or in the sleep after it
LoopThreads ==
    { t \in { "monitor", "operator" } : pc[t] \notin { "idle", "while", "exited" } }

\* C25: at most one monitor loop runs on the manager at any time, whatever
\* the sequence of start_monitoring and stop_monitoring calls.
C25_OneMonitorLoop == Cardinality(LoopThreads) <= 1

\* C26: in every reachable state the health score of each region is the
\* ratio of its services_healthy to its services_total (as a percentage) when
\* services_total > 0 and is 0 when services_total = 0, with
\* 0 <= services_healthy <= services_total.
C26_ScoreIsRatio ==
    \A region \in Regions :
        LET h == region_health[region] IN
        /\ 0 <= h.services_healthy
        /\ h.services_healthy <= h.services_total
        /\ h.services_total > 0 =>
              h.health_score = (h.services_healthy * 100) \div h.services_total
        /\ h.services_total = 0 => h.health_score = 0

\* the probes of the last direct check that ended with the given outcome
ProbesWith(outcome) == { i \in 1..4 : obs.probed.outcomes[i] = outcome }

\* C27: whatever the four probes do, check_region_health returns and stores a
\* RegionHealth of the region in which all four subsystems are counted and a
\* probe that raised is counted as unhealthy, exactly as a probe that found
\* its services degraded is: services_healthy is the number of probes that
\* found their services in order.
C27_RaisingProbeIsUnhealthy ==
    obs.probed.checks > 0 =>
        LET h == region_health[obs.probed.region] IN
        /\ h.status \in FailoverStatus
        /\ h.services_total = 4
        /\ h.services_healthy = Cardinality(ProbesWith("ok"))
        /\ h.services_healthy <= 4 - Cardinality(ProbesWith("raises"))
        /\ h.health_score = (Cardinality(ProbesWith("ok")) * 100) \div 4

\* a check in which two probes raised and two found their services in order
\* has stored a score of one half
C27_Witness ==
    /\ obs.probed.checks = 2
    /\ Cardinality(ProbesWith("raises")) = 2
    /\ Cardinality(ProbesWith("ok")) = 2
    /\ region_health[obs.probed.region].health_score = 50
    /\ region_health[obs.probed.region].services_healthy = 2

\* C28: the cascade risk score is 0.3 times the number of failed checks plus
\* 0.4 times the number of directly dependent services plus the criticality
\* (0.8 for dynamodb, 0.5 otherwise), clipped to at most 1.0 (in tenths: 3,
\* 4, 8, 5 and 10); it lies between 0 and 1.0, and it does not decrease when
\* the number of failed checks grows by one.
C28_ClippedWeightedSum ==
    obs.risk.assessed =>
        LET r == obs.risk
            sum == 3 * r.failed_checks + 4 * Len(dependent_services(r.service))
                   + (IF r.service = "dynamodb" THEN 8 ELSE 5)
        IN  /\ r.risk_score = IF sum > 10 THEN 10 ELSE sum
            /\ 0 <= r.risk_score
            /\ r.risk_score <= 10
            /\ r.compared => r.previous <= r.risk_score

\* s3 has no dependent service: with one failed check its score was 0.8, and
\* with two the sum 1.1 is clipped to 1.0
C28_Witness ==
    /\ obs.risk.assessed
    /\ obs.risk.compared
    /\ obs.risk.service = "s3"
    /\ obs.risk.failed_checks = 2
    /\ obs.risk.previous = 8
    /\ obs.risk.risk_score = 10

\* C29: with the monitor loop as the only caller, a region whose status is
\* ACTIVE is the region current_active_region names, in every state, the
\* states between the assignments of the commit and of the rollback included.
C29_ActiveStatusIsActiveRegion ==
    \A r \in Regions :
        region_health[r].status = ACTIVE => r = current_active_region

\* between the second and the third assignment of the commit: the target is
\* ACTIVE and named, the source is not yet FAILED
C29_Witness ==
    /\ pc["monitor"] = "pf_commit_from"
    /\ frame["monitor"].from_region # frame["monitor"].to_region
    /\ current_active_region = frame["monitor"].to_region
    /\ region_health[frame["monitor"].to_region].status = ACTIVE
    /\ region_health[frame["monitor"].from_region].status = FAILING_OVER

\* C30: a tick of the monitor loop starts target selection if and only if
\* the score its own check gave the active region is below health_threshold.
\* After the checks of a tick the counter of the active region is at least 1
\* exactly when that score is below the threshold, so the counter term of the
\* trigger never decides; a tick that selects has an unhealthy active region,
\* and a tick that goes to sleep without selecting has a healthy one.
C30_SelectsIffScoreBelowThreshold ==
    /\ pc["monitor"] = "decide" =>
          (consecutive_failures[current_active_region] >= 1
             <=> region_health[current_active_region].health_score < health_threshold)
    /\ pc["monitor"] = "select" =>
          /\ region_health[loop.active_region].health_score < health_threshold
          /\ consecutive_failures[loop.active_region] >= 1
    /\ (pc["monitor"] = "sleep" /\ obs.outcome = "healthy") =>
          /\ region_health[loop.active_region].health_score >= health_threshold
          /\ consecutive_failures[loop.active_region] = 0

\* the first unhealthy tick of the primary region: the counter is 1, below
\* consecutive_failures_threshold, and target selection starts
C30_Witness ==
    /\ pc["monitor"] = "select"
    /\ loop.active_region = primary_region
    /\ failover_events = << >>
    /\ consecutive_failures[primary_region] = 1
    /\ consecutive_failures[primary_region] < consecutive_failures_threshold
    /\ region_health[primary_region].health_score < health_threshold

\* the status the claim gives a checked region
StatusAfterCheck(previous, unhealthy, is_active) ==
    IF unhealthy
    THEN IF previous = ACTIVE THEN FAILING_OVER ELSE FAILED
    ELSE IF is_active THEN ACTIVE ELSE STANDBY

\* the record the step writes for region has the status of the claim
CheckedAsClaimed(region) ==
    LET h == region_health'[region]
        unhealthy == \/ h.health_score < health_threshold
                     \/ h.response_time > response_time_threshold
    IN  /\ h.status = StatusAfterCheck(region_health[region].status, unhealthy,
                                       region = current_active_region)
        /\ (region_health[region].status = FAILED /\ ~unhealthy
               /\ region # current_active_region) => h.status = STANDBY

\* C31: the status a health check writes depends on three facts only, whether
\* the check is unhealthy (score below health_threshold or response time
\* above response_time_threshold), the previous status, and whether the
\* region is current_active_region: unhealthy gives FAILING_OVER after ACTIVE
\* and FAILED otherwise, healthy gives ACTIVE to the active region and STANDBY
\* to any other, a FAILED one included.  It holds of the checks of the tick
\* and of the polls of the verification.
C31_StatusFromThreeFacts ==
    [][ /\ pc["monitor"] = "for" => CheckedAsClaimed(all_regions[loop.idx])
        /\ pc["monitor"] = "pf_verify_store" =>
               CheckedAsClaimed(frame["monitor"].to_region) ]_vars

\* a tick has checked every region: the active region answered with a good
\* score but too slowly and is FAILING_OVER, a checked secondary is on STANDBY
C31_Witness ==
    /\ pc["monitor"] = "decide"
    /\ region_health[current_active_region].status = FAILING_OVER
    /\ region_health[current_active_region].health_score >= health_threshold
    /\ region_health[current_active_region].response_time > response_time_threshold
    /\ \E r \in Regions \ {current_active_region} :
          /\ region_health[r].status = STANDBY
          /\ region_health[r].services_total > 0

\* C32: in a tick of the monitor loop every region has been checked and its
\* counter updated when the decision is evaluated (the for loop is over, and
\* each region's counter is 0 exactly when its stored score is healthy); the
\* target handed to perform_failover passed this tick's check (its counter is
\* 0 and its stored record is eligible); and the tick reaches its sleep only
\* after the attempt it started has appended its event, cleared
\* failover_in_progress and returned.
C32_CheckDecideOrchestrateInOneTick ==
    /\ pc["monitor"] \in { "decide", "select" } =>
          /\ loop.idx = Len(all_regions) + 1
          /\ \A r \in Regions :
                /\ region_health[r].services_total > 0
                /\ consecutive_failures[r] = 0
                     <=> region_health[r].health_score >= health_threshold
    /\ pc["monitor"] = "pf_guard" =>
          /\ loop.idx = Len(all_regions) + 1
          /\ frame["monitor"].to_region = loop.target_region
          /\ consecutive_failures[loop.target_region] = 0
          /\ region_health[loop.target_region].services_total > 0
          /\ region_health[loop.target_region].health_score >= health_threshold
          /\ region_health[loop.target_region].status \in { STANDBY, ACTIVE }
    /\ pc["monitor"] = "sleep" =>
          /\ ~failover_in_progress
          /\ frame["monitor"] = IdleFrame
          /\ loop.idx = Len(all_regions) + 1
          /\ obs.outcome = "failover" => Len(failover_events) = obs.tick_events + 1
          /\ obs.outcome # "failover" => Len(failover_events) = obs.tick_events

\* the second attempt of a run is over and its tick is about to sleep
C32_Witness ==
    /\ pc["monitor"] = "sleep"
    /\ obs.outcome = "failover"
    /\ obs.tick_events = 1
    /\ Len(failover_events) = 2
    /\ ~failover_in_progress

\* the members of the list secondary_regions
SecondaryRegions == { secondary_regions[i] : i \in 1..Len(secondary_regions) }

\* C33: in every attempt the monitor loop starts, from the call to the return,
\* the target region differs from the source region, and so it does in every
\* event recorded; the active region is never its own failover target, also
\* when it is one of the secondary regions the selection draws from.
C33_TargetIsNotSource ==
    /\ pc["monitor"] \in { "pf_guard", "pf_set", "pf_return" } \cup Orchestrating =>
          /\ frame["monitor"].from_region = loop.active_region
          /\ frame["monitor"].to_region = loop.target_region
          /\ frame["monitor"].to_region # frame["monitor"].from_region
    /\ \A i \in 1..Len(failover_events) :
          failover_events[i].to_region # failover_events[i].from_region

\* an attempt is under way whose source is a secondary region that became
\* active by an earlier failover
C33_Witness ==
    /\ pc["monitor"] = "pf_dns"
    /\ Len(failover_events) = 1
    /\ failover_events[1].success
    /\ frame["monitor"].from_region = current_active_region
    /\ frame["monitor"].from_region \in SecondaryRegions
    /\ frame["monitor"].to_region \in SecondaryRegions

\* C34: select_best_failover_region never returns the configured primary
\* region, in any state, and the monitor never hands it to perform_failover:
\* once a secondary region is active there is no way back to the primary,
\* also when the primary is on STANDBY in full health and no secondary region
\* is eligible.
C34_PrimaryNeverSelected ==
    /\ select_best_failover_region # primary_region
    /\ loop.target_region # primary_region
    /\ frame["monitor"].to_region # primary_region
    /\ \A i \in 1..Len(failover_events) :
          failover_events[i].to_region # primary_region

\* a secondary region is active and unhealthy, the primary has recovered and
\* is on STANDBY with every subsystem healthy, and the tick found no target
C34_Witness ==
    /\ pc["monitor"] = "sleep"
    /\ obs.outcome = "no_target"
    /\ loop.target_region = None
    /\ current_active_region # primary_region
    /\ region_health[current_active_region].health_score < health_threshold
    /\ region_health[primary_region].status = STANDBY
    /\ region_health[primary_region].services_healthy = 4
    /\ region_health[primary_region].response_time < response_time_threshold
    /\ \A r \in SecondaryRegions : ~Eligible(r)

\* C35: every event in failover_events has rollback_performed equal to the
\* negation of success; the event of an attempt whose rollback failed has
\* rollback_performed true, and is the very record an attempt between the
\* same regions whose rollback succeeded gets.
C35_RollbackPerformedIsNotSuccess ==
    /\ \A i \in 1..Len(failover_events) :
          failover_events[i].rollback_performed = ~failover_events[i].success
    /\ pc["monitor"] = "pf_finally" =>
          LET event == failover_events[Len(failover_events)] IN
          /\ event.success = frame["monitor"].success
          /\ ~frame["monitor"].success =>
                /\ event.rollback_performed
                /\ event = [ from_region |-> frame["monitor"].from_region,
                             to_region |-> frame["monitor"].to_region,
                             success |-> FALSE, rollback_performed |-> TRUE ]

\* the event of an attempt whose rollback failed has just been appended
C35_Witness ==
    /\ pc["monitor"] = "pf_finally"
    /\ ~frame["monitor"].success
    /\ ~frame["monitor"].rollback_success
    /\ failover_events[Len(failover_events)].rollback_performed
    /\ ~failover_events[Len(failover_events)].success

\* the positions at which a call of perform_failover has ended, by a return
\* or by an exception that reached the caller
CallEnded == { "pf_return", "pf_raised" }

\* C36: a call of perform_failover that has set failover_in_progress
\* eventually ends, the verification giving up when its wait is over, and
\* failover_in_progress is false when the call has ended, whichever way it
\* ended, by its return statement or by an exception.
C36_TerminatesAndReleases ==
    /\ [](pc["manual"] \in CallEnded => ~failover_in_progress)
    /\ (pc["manual"] \in Orchestrating) ~> (pc["manual"] \in CallEnded)

\* the region the step checks, when the step is a health check of the tick
\* or a poll of the verification
CheckedNow(region) ==
    \/ pc["monitor"] = "for" /\ region = all_regions[loop.idx]
    \/ /\ pc["monitor"] = "pf_verify_store"
       /\ region = frame["monitor"].to_region

\* C37 as stated: the health check of a region that follows a check which
\* wrote FAILING_OVER writes ACTIVE, STANDBY or FAILED, whether or not an
\* orchestration ran between the two checks.
C37_NeverFailingOverTwice ==
    [][ \A r \in Regions :
          (CheckedNow(r) /\ obs.checked[r] = FAILING_OVER) =>
              region_health'[r].status \in { ACTIVE, STANDBY, FAILED } ]_vars

\* C37: a health check never leaves FAILING_OVER a region that is FAILING_OVER
\* when the check begins: it writes ACTIVE, STANDBY or FAILED.  Two
\* consecutive checks of a region both write FAILING_OVER only when the
\* attempt of the tick between them failed and its rollback put the region,
\* still the active one, back on ACTIVE.
C37_FailingOverTwiceOnlyAfterRollback ==
    [][ \A r \in Regions :
          CheckedNow(r) =>
            /\ region_health[r].status = FAILING_OVER =>
                  region_health'[r].status \in { ACTIVE, STANDBY, FAILED }
            /\ (obs.checked[r] = FAILING_OVER
                   /\ region_health'[r].status = FAILING_OVER) =>
                  /\ region_health[r].status = ACTIVE
                  /\ r = current_active_region
                  /\ obs.prior_failover
                  /\ Len(failover_events) >= 1
                  /\ failover_events[Len(failover_events)].from_region = r
                  /\ ~failover_events[Len(failover_events)].success ]_vars

\* the second check in a row of the primary region has written FAILING_OVER:
\* the attempt of the first tick failed and was rolled back
C37_Witness ==
    /\ pc["monitor"] = "for"
    /\ loop.idx = 2
    /\ obs.prior_failover
    /\ consecutive_failures[primary_region] = 2
    /\ region_health[primary_region].status = FAILING_OVER
    /\ Len(failover_events) = 1
    /\ ~failover_events[1].success
    /\ failover_events[1].from_region = primary_region

\* C38: no attempt cuts its steps short.  When the steps are over or the
\* rollback starts, the scale-up of the target and the verification of the
\* target have been called, also when the traffic redirect or the CDN update
\* had failed: the verification has polled the target at least once, and a
\* verification that did not succeed has used up its whole wait.
C38_NoShortCircuit ==
    LET f == frame["monitor"] IN
    pc["monitor"] \in { "pf_branch", "rb_dns" } =>
        /\ Len(f.calls) = 4
        /\ f.calls[3] = << "scale", f.to_region >>
        /\ f.calls[4] = << "verify", f.to_region >>
        /\ f.polls >= 1
        /\ obs.checked[f.to_region] = region_health[f.to_region].status
        /\ ~f.verification_success => f.polls = MaxPolls
        /\ pc["monitor"] = "rb_dns" =>
               ~(f.dns_success /\ f.cloudfront_success /\ f.scaling_success
                  /\ f.verification_success)

\* the rollback is about to start after an attempt whose traffic redirect and
\* CDN update both failed: the target was scaled up all the same and was
\* polled until the wait was over
C38_Witness ==
    LET f == frame["monitor"] IN
    /\ pc["monitor"] = "rb_dns"
    /\ ~f.dns_success
    /\ ~f.cloudfront_success
    /\ f.scaling_success
    /\ ~f.verification_success
    /\ f.polls = MaxPolls
    /\ Len(f.calls) = 4

\* the services that have an entry in the dependency graph
GraphServices == DOMAIN service_dependencies

\* C39: for a service with an entry in the dependency graph the assessed risk
\* score is 1.0 (10 tenths) whatever the number of failed checks, zero
\* included, and the analysis of the cycle reports a cascade risk for it,
\* also when none of its checks failed.
C39_GraphServiceAlwaysAlerts ==
    obs.risk.service \in GraphServices =>
        /\ obs.risk.assessed => obs.risk.risk_score = 10
        /\ obs.risk.analyzed =>
              /\ obs.risk.risk_score > cascade_alert_threshold
              /\ obs.risk.alerted

\* elbv2, the service with the fewest dependents, has been analyzed in a
\* cycle in which all its checks succeeded, and a cascade risk was reported
C39_Witness ==
    /\ obs.risk.analyzed
    /\ obs.risk.service = "elbv2"
    /\ obs.risk.failed_checks = 0
    /\ ~obs.risk.compared
    /\ obs.risk.risk_score = 10
    /\ obs.risk.alerted

====
